---- MODULE Spec2Model ----
(***************************************************************************)
(* Model of the phase orchestration and quality-gating engine of the       *)
(* due-diligence agent: the two pipeline drivers (the LangGraph graph of   *)
(* graph/workflow.py and the step list of app.py), the parallel stages,    *)
(* the per-phase quality gates of agents/orchestrator, the per-thread     *)
(* token counters, the retry wrapper, the agent loop and the structured-   *)
(* result parser of agents/base.py, the tool executor of                   *)
(* tools/executor.py, the recommendation extraction of final_report.py    *)
(* and the job threads of app.py.                                          *)
(*                                                                         *)
(* Spec is a pipeline run, SpecStage one parallel stage thread by thread,  *)
(* SpecGate one run of a quality gate, SpecAll a pipeline run or a gate    *)
(* run, SpecUsage the token counters, SpecTool one tool call, SpecRetry    *)
(* one model call with its retries, SpecAgent one run of the agent loop,   *)
(* SpecParse the extraction of the structured result from a final text,    *)
(* SpecPool the worker pool of a parallel stage with its token counters,   *)
(* SpecMemo the extraction of the recommendation from a memo, SpecJobs    *)
(* the submitted jobs with their admission semaphore and history file.     *)
(*                                                                         *)
(* A Python dict is a function whose DOMAIN is its key set.  An agent      *)
(* output is a record [by, rev]: who produced it and which run of that     *)
(* agent it is (0 = first run, n = n-th re-run by a gate).  Scores are in  *)
(* hundredths (0.65 is 65).                                                *)
(***************************************************************************)
EXTENDS Integers, Sequences, FiniteSets, TLC

VARIABLES
    driver,         \* "graph" (build_graph) or "app" (_run_pipeline)
    pc,             \* "submit", the next node / step of the run, or "end"
    state,          \* the shared state dict threaded through the run
    progress,       \* ordered list of completed step names
    status,         \* "submitted", "not_started", "running", "complete", "error"
    result,         \* the update returned by the last node that returned
    outcome,        \* agent name -> "none" | "ok" | "raised" (first runs)
    gate,           \* which quality gate is being run ("none" in a pipeline run)
    gpc,            \* position inside the gate's run()
    eval_result,    \* what the gate's evaluation pass returned
    evaluations,    \* the evaluation list of the gate
    to_revise,      \* revise_agents: filtered, sorted, capped list
    idx,            \* revise_agents: index of the next entry of to_revise
    working_state,  \* the gate's private copy of the state
    state_updates,  \* revise_agents: the update it will return
    calls,          \* ordered log of run_fn calls made by revise_agents
    seen,           \* agent -> the fields holding an output in the state the
                    \* agent's run() was given, as of its last run
    futures,        \* parallel stage: agent -> its future [st, res]
    stage_acc,      \* parallel stage: merged, errors, flags, usage so far
    tl,             \* thread -> its thread-local token counters (_tl)
    since,          \* thread -> token counts of its model invocations since
                    \* its last reset, in order
    last_usage,     \* what the last get_and_reset_usage call returned, and on
                    \* which thread, until that thread's next invocation
    workers,        \* parallel stage: pool thread -> the task it runs and its
                    \* thread-local counters, as the runs whose tokens they hold
    idle_semaphore, \* parallel stage: the executor's count of idle workers
    agent_usage,    \* parallel stage: agent name -> the usage collected for it
    jobs,           \* app: job id -> the position of its worker thread, the
                    \* status in its job file, the semaphore it uses and the
                    \* history list it has loaded
    semaphores,     \* app: the admission semaphores, each with its counter
    history_file,   \* app: reports/history.json, newest entry first
    token_usage,    \* app: the usage ledger, agent key -> the runs whose
                    \* tokens its entry counts
    job,            \* app: the progress and ledger last written to the job file
    uncollected,    \* the runs whose tokens sit in the calling thread's
                    \* counters, not yet taken by get_and_reset_usage
    tool_call,      \* execute_tool_call: the tool name and how the tool behaves
    tool_result,    \* execute_tool_call: what the call produced
    max_retries,    \* _create_with_retry: its max_retries argument
    attempt,        \* _create_with_retry: the loop variable
    created,        \* _create_with_retry: how each provider call so far ended
    slept,          \* _create_with_retry: the waits slept so far, in seconds
    retry_out,      \* _create_with_retry: "running", "returned" or the
                    \* exception that left it
    apc,            \* run_agent: position in the loop
    max_iterations, \* run_agent: its max_iterations argument
    rounds,         \* run_agent: model round-trips made so far
    messages,       \* run_agent: the transcript
    tool_results,   \* run_agent: the observations of the current round so far
    agent_out,      \* run_agent: what it returned, or the exception that left it
    final_text,     \* _parse_json_response: the text it is given
    parsed,         \* _parse_json_response: what it returned or raised
    slot            \* the state field an agent's run() fills with the result

vars == <<driver, pc, state, progress, status, result, outcome,
          gate, gpc, eval_result, evaluations, to_revise, idx, working_state,
          state_updates, calls, seen, futures, stage_acc,
          tl, since, last_usage, workers, idle_semaphore, agent_usage,
          jobs, semaphores, history_file,
          token_usage, job, uncollected,
          tool_call, tool_result, max_retries, attempt, created, slept,
          retry_out, apc, max_iterations, rounds, messages, tool_results,
          agent_out,
          final_text, parsed, slot>>

pipeVars == <<driver, pc, state, progress, status, result, outcome>>
gateVars == <<gate, gpc, eval_result, evaluations, to_revise, idx, working_state,
              state_updates, calls>>
stageVars == <<futures, stage_acc>>
poolVars == <<workers, idle_semaphore, agent_usage>>
admissionVars == <<jobs, semaphores, history_file>>
usageVars == <<tl, since, last_usage, poolVars, admissionVars>>
ledgerVars == <<token_usage, job, uncollected>>
toolVars == <<tool_call, tool_result>>
retryVars == <<max_retries, attempt, created, slept, retry_out>>
agentVars == <<apc, max_iterations, rounds, messages, tool_results, agent_out>>
parseVars == <<final_text, parsed, slot>>
adapterVars == <<toolVars, retryVars, agentVars, parseVars>>

----------------------------------------------------------------------------
(* Values *)

Null == [by |-> "null", rev |-> 0]

Out(agent, n) == [by |-> agent, rev |-> n]

EmptyDict == [k \in {} |-> Null]

\* dict.update(u): keys of u overwrite, all other keys are kept
DictUpdateKeepOld(d, u) ==
    [k \in (DOMAIN d) \cup (DOMAIN u) |-> IF k \in DOMAIN d THEN d[k] ELSE u[k]]

DictUpdate(d, u) ==
    [k \in (DOMAIN d) \cup (DOMAIN u) |-> IF k \in DOMAIN u THEN u[k] ELSE d[k]]

Range(s) == {s[i] : i \in 1..Len(s)}

Reverse(s) == [i \in 1..Len(s) |-> s[Len(s) + 1 - i]]

----------------------------------------------------------------------------
(* Agents and their state fields *)

Phase1Agents == <<"financial_analyst", "market_research", "legal_risk",
                  "management_team", "tech_product">>

Phase2Agents == <<"bull_case", "bear_case", "valuation", "red_flag">>

FieldOf(agent) ==
    CASE agent = "financial_analyst" -> "financial_report"
      [] agent = "market_research"   -> "market_report"
      [] agent = "legal_risk"        -> "legal_report"
      [] agent = "management_team"   -> "management_report"
      [] agent = "tech_product"      -> "tech_report"
      [] agent = "bull_case"         -> "bull_case"
      [] agent = "bear_case"         -> "bear_case"
      [] agent = "valuation"         -> "valuation"
      [] agent = "red_flag"          -> "red_flags"
      [] agent = "fact_checker"      -> "verification"
      [] agent = "stress_test"       -> "stress_test"
      [] agent = "completeness"      -> "completeness"
      [] OTHER                       -> "unknown"

AllAgents == Range(Phase1Agents) \cup Range(Phase2Agents)
             \cup {"fact_checker", "stress_test", "completeness",
                   "orchestrator", "final_report_agent"}

\* an error-list entry: f"{name} failed: {exc}" or the input error
Err(who, what) == [who |-> who, what |-> what]

\* the state fields that hold an agent's output
OutputFields ==
    {FieldOf(a) : a \in Range(Phase1Agents) \cup Range(Phase2Agents)
                        \cup {"fact_checker", "stress_test", "completeness"}}
    \cup {"orchestrator_briefing", "final_report"}

\* the output fields that are set (not None, not an empty list) in dict s:
\* what state.get(field) hands to an agent's context
Produced(s) ==
    {f \in OutputFields \cap DOMAIN s :
        IF f = "red_flags" THEN s[f] # <<>> ELSE s[f] # Null}

Phase1Fields == {FieldOf(a) : a \in Range(Phase1Agents)}

\* the output fields an agent's run() reads from the state it is given
Reads(agent) ==
    CASE agent \in Range(Phase1Agents) -> {}
      [] agent \in {"bull_case", "bear_case", "red_flag"} -> Phase1Fields
      [] agent = "valuation" -> {"financial_report", "market_report"}
      [] agent = "fact_checker" ->
            (Phase1Fields \ {"legal_report"})
                \cup {"bull_case", "bear_case", "red_flags"}
      [] agent = "stress_test" ->
            {"financial_report", "bear_case", "red_flags", "valuation",
             "verification"}
      [] agent = "completeness" ->
            Phase1Fields \cup {"bull_case", "bear_case", "valuation",
                               "red_flags", "verification", "stress_test"}
      [] agent = "orchestrator" ->
            OutputFields \ {"orchestrator_briefing", "final_report"}
      [] agent = "final_report_agent" -> OutputFields \ {"final_report"}

\* no thread has made a model invocation
NoCounters == [t \in {} |-> 0]

\* no get_and_reset_usage call has returned
NoUsage == [thread |-> "none", input_tokens |-> 0, output_tokens |-> 0]

\* no parallel stage is running: no future exists
NoFutures == [a \in {} |-> [st |-> "none", res |-> EmptyDict]]

\* the tokens one run of an agent consumed (rev as in Out): token counts are
\* kept as the set of runs they add up, so that adding is union and a total
\* that loses a run is one that decreased or dropped it
Run(agent, n) == <<agent, n>>

\* token_usage: dict = {}
EmptyLedger == [a \in {} |-> {}]

\* the job file as the submit handler writes it: "progress": []
NoJob == [progress |-> <<>>, token_usage |-> EmptyLedger]

\* no run has been started: empty ledger, nothing in the thread's counters
LedgerIdle ==
    /\ token_usage = EmptyLedger
    /\ job = NoJob
    /\ uncollected = {}

\* no pool exists: no worker thread, no usage collected
NoWorkers == [t \in {} |-> [task |-> "none", counters |-> {}]]

NoAgentUsage == [a \in {} |-> {}]

PoolIdle ==
    /\ workers = NoWorkers
    /\ idle_semaphore = 0
    /\ agent_usage = NoAgentUsage

\* no job has been submitted
NoJobs == [j \in {} |-> [pc |-> "none"]]

NoSemaphores == [s \in {} |-> 0]

AdmissionIdle ==
    /\ jobs = NoJobs
    /\ semaphores = NoSemaphores
    /\ history_file = <<>>

\* nothing has been returned or raised yet
NoResult == [kind |-> "none"]

ToolIdle ==
    /\ tool_call = [name |-> "none", behaviour |-> "none"]
    /\ tool_result = NoResult

RetryIdle ==
    /\ max_retries = 0
    /\ attempt = 0
    /\ created = <<>>
    /\ slept = <<>>
    /\ retry_out = "idle"

AgentIdle ==
    /\ apc = "idle"
    /\ max_iterations = 0
    /\ rounds = 0
    /\ messages = <<>>
    /\ tool_results = <<>>
    /\ agent_out = NoResult

ParseIdle ==
    /\ final_text = <<>>
    /\ parsed = NoResult
    /\ slot = NoResult

\* the model invocation adapter and the tool executor are not running
AdapterIdle ==
    /\ ToolIdle
    /\ RetryIdle
    /\ AgentIdle
    /\ ParseIdle

----------------------------------------------------------------------------
(* Bounds *)

\* most flag records one run of the red-flag agent produces
MaxFlags == 2

\* longest evaluation list an evaluation pass returns
MaxEvals == 5

\* most input tokens, and most output tokens, one model invocation reports
MaxTokens == 2

\* most model invocations of one thread between two resets
MaxCalls == 2

\* largest max_retries _create_with_retry is called with (its default)
MaxRetries == 5

\* longest final text, in tokens
MaxTextLen == 5

\* largest max_iterations run_agent is called with
MaxIterations == 3

\* longest memo, in tokens
MaxMemoLen == 4

\* most jobs submitted
MaxJobs == 3

----------------------------------------------------------------------------
(* The shared state and how a driver merges a node's update into it *)

\* keys declared by DueDiligenceState; the graph driver drops any other key
SchemaKeys ==
    {"company_name", "company_url", "financial_report", "market_report",
     "legal_report", "management_report", "tech_report", "bull_case",
     "bear_case", "valuation", "red_flags", "verification", "stress_test",
     "completeness", "final_report", "recommendation", "errors",
     "current_phase"}

\* graph driver: errors is Annotated[list[str], operator.add], every other
\* declared key is overwritten, undeclared keys are not channels
GraphMerge(s, u) ==
    [k \in DOMAIN s |->
        IF k \in DOMAIN u /\ k \in SchemaKeys
        THEN IF k = "errors" THEN s[k] \o u[k] ELSE u[k]
        ELSE s[k]]

\* app driver: state.update(result), then the usage side channel is popped
AppMerge(s, u) ==
    LET m == DictUpdate(s, u)
    IN  [k \in (DOMAIN m) \ {"__agent_usage__"} |-> m[k]]

Merge(d, s, u) == IF d = "graph" THEN GraphMerge(s, u) ELSE AppMerge(s, u)

InitialState(company, url) ==
    [company_name      |-> company,
     company_url       |-> url,
     financial_report  |-> Null,
     market_report     |-> Null,
     legal_report      |-> Null,
     management_report |-> Null,
     tech_report       |-> Null,
     bull_case         |-> Null,
     bear_case         |-> Null,
     valuation         |-> Null,
     red_flags         |-> <<>>,
     verification      |-> Null,
     stress_test       |-> Null,
     completeness      |-> Null,
     final_report      |-> Null,
     recommendation    |-> "none",
     errors            |-> <<>>,
     current_phase     |-> "init"]

\* the node that follows `node` in the driver's chain
GraphNext(node) ==
    CASE node = "input_processor"    -> "phase1_parallel"
      [] node = "phase1_parallel"    -> "phase1_aggregator"
      [] node = "phase1_aggregator"  -> "phase2_parallel"
      [] node = "phase2_parallel"    -> "phase2_aggregator"
      [] node = "phase2_aggregator"  -> "fact_checker"
      [] node = "fact_checker"       -> "stress_test"
      [] node = "stress_test"        -> "completeness"
      [] node = "completeness"       -> "orchestrator"
      [] node = "orchestrator"       -> "final_report_agent"
      [] node = "final_report_agent" -> "finish"

AppNext(node) ==
    CASE node = "input_processor"    -> "phase1_parallel"
      [] node = "phase1_parallel"    -> "phase1_aggregator"
      [] node = "phase1_aggregator"  -> "phase2_parallel"
      [] node = "phase2_parallel"    -> "phase2_aggregator"
      [] node = "phase2_aggregator"  -> "fact_checker"
      [] node = "fact_checker"       -> "stress_test"
      [] node = "stress_test"        -> "completeness"
      [] node = "completeness"       -> "final_report_agent"
      [] node = "final_report_agent" -> "finish"

\* the chain with the stress test wired ahead of the fact checker
NextNodeStressFirst(d, node) ==
    CASE node = "phase2_aggregator" -> "stress_test"
      [] node = "stress_test"       -> "fact_checker"
      [] node = "fact_checker"      -> "completeness"
      [] OTHER -> IF d = "graph" THEN GraphNext(node) ELSE AppNext(node)

NextNode(d, node) == IF d = "graph" THEN GraphNext(node) ELSE AppNext(node)

\* _NO_LLM_NODES of the app: the steps whose usage is not recorded
NO_LLM_NODES == {"input_processor", "phase1_aggregator", "phase2_aggregator"}

\* the steps that are parallel stages
ParallelNodes == {"phase1_parallel", "phase2_parallel"}

\* progress.append(node_name)
StepLogRestart(log, node) == <<node>>

StepLog(log, node) == Append(log, node)

\* the ledger after the app's step `node` returned `upd`: a stage's side
\* channel gives one entry per agent that returned; a sequential agent's
\* entry is what get_and_reset_usage finds on the controller's thread; each
\* entry is assigned
LedgerAfter(ledger, counters, node, upd) ==
    IF node \in ParallelNodes
    THEN DictUpdate(ledger, [a \in upd["__agent_usage__"] |-> {Run(a, 0)}])
    ELSE IF node \in NO_LLM_NODES THEN ledger
    ELSE DictUpdate(ledger, node :> (counters \cup {Run(node, 0)}))

\* the calling thread's counters after the step: a sequential agent's tokens
\* are added, and the app takes and zeroes them; the pool workers' tokens
\* never reach them
CountersAfter(d, counters, node) ==
    IF node \in ParallelNodes \cup NO_LLM_NODES THEN counters
    ELSE IF d = "app" THEN {}
    ELSE counters \cup {Run(node, 0)}

\* a node returned `upd`: the driver merges it and moves on; the app then
\* records the step, updates its ledger and writes both to the job file
Returned(node, upd) ==
    /\ state' = Merge(driver, state, upd)
    /\ progress' = StepLog(progress, node)
    /\ result' = upd
    /\ pc' = NextNode(driver, node)
    /\ status' = status
    /\ uncollected' = CountersAfter(driver, uncollected, node)
    /\ IF driver = "app"
       THEN /\ token_usage' = LedgerAfter(token_usage, uncollected, node, upd)
            /\ job' = [progress |-> progress', token_usage |-> token_usage']
       ELSE UNCHANGED <<token_usage, job>>

\* a node raised: app.py catches around the whole step list and records the
\* job as failed; graph.stream re-raises to main.py, which exits
Raised ==
    /\ pc' = "end"
    /\ status' = "error"
    /\ UNCHANGED <<state, progress, result>>
    /\ UNCHANGED ledgerVars

\* the company names a user can submit: a name, nothing, or only blanks
Companies == {"Acme Corp", "", "  "}

\* the URLs a user can submit: none, or one
Urls == {"none", "https://acme.example"}

\* str.strip() on the values above
Strip(text) == IF text = "  " THEN "" ELSE text

----------------------------------------------------------------------------
(* Nodes *)

input_processor ==
    /\ pc = "input_processor"
    /\ LET errors == IF Strip(state["company_name"]) = "" THEN
                         <<Err("company_name", "is required but was not provided")>>
                     ELSE <<>>
       IN  Returned("input_processor",
                    [current_phase |-> "phase1", errors |-> errors,
                     red_flags |-> <<>>])
    /\ UNCHANGED <<driver, outcome, seen>>
    /\ UNCHANGED gateVars
    /\ UNCHANGED stageVars
    /\ UNCHANGED usageVars
    /\ UNCHANGED adapterVars

\* the update an agent's run() returns on its n-th run
AgentResultWithPhase(agent, n) ==
    (FieldOf(agent) :> Out(agent, n)) @@ [current_phase |-> "phase1"]

\* an update that also carries an empty flag list
AgentResultClearsFlags(agent, n) ==
    (FieldOf(agent) :> Out(agent, n)) @@ [red_flags |-> <<>>]

AgentResult(agent, n) == FieldOf(agent) :> Out(agent, n)

\* state s with the first-run outputs of the listed agents merged in
RECURSIVE WithOutputs(_, _)
WithOutputs(s, agents) ==
    IF agents = <<>> THEN s
    ELSE WithOutputs(DictUpdate(s, AgentResult(Head(agents), 0)), Tail(agents))

\* red_flag.run: k finding records, then the record carrying the full report
FlagList(k) ==
    [i \in 1..k |-> IF i < k THEN [type |-> "contradiction", n |-> i]
                    ELSE [type |-> "full_report", n |-> 0]]

\* the loop over as_completed of a parallel stage: `order` is the completion
\* order, oc[a] how agent a ended, res[a] what it returned
RECURSIVE StageCollectAbort(_, _, _, _)
StageCollectAbort(order, oc, res, acc) ==
    IF order = <<>> THEN acc
    ELSE LET a == Head(order)
         IN  IF oc[a] = "ok"
             THEN StageCollectAbort(Tail(order), oc, res,
                      [acc EXCEPT !.merged = DictUpdate(@, res[a]),
                                  !.usage = @ \cup {a}])
             ELSE [acc EXCEPT !.errors = Append(@, Err(a, "failed"))]

RECURSIVE StageCollect(_, _, _, _)
StageCollect(order, oc, res, acc) ==
    IF order = <<>> THEN acc
    ELSE LET a == Head(order)
             rf == "red_flags" \in DOMAIN res[a]
             r  == [k \in (DOMAIN res[a]) \ {"red_flags"} |-> res[a][k]]
         IN  StageCollect(Tail(order), oc, res,
                 IF oc[a] = "ok"
                 THEN [acc EXCEPT
                         !.flags  = IF rf THEN @ \o res[a]["red_flags"] ELSE @,
                         !.merged = DictUpdate(@, r),
                         !.usage  = @ \cup {a}]
                 ELSE [acc EXCEPT !.errors = Append(@, Err(a, "failed"))])

\* the orders in which the futures of a stage complete: as submitted, or the
\* last submitted first
CompletionOrders(agents) == {agents, Reverse(agents)}

StageAcc(phase, flags) ==
    [merged |-> [current_phase |-> phase], errors |-> <<>>,
     flags |-> flags, usage |-> {}]

WithErrors(m, errors) ==
    IF errors # <<>> THEN m @@ ("errors" :> errors) ELSE m

\* what the stage returns once its loop over the futures has ended
StageUpdate(node, acc) ==
    LET m == IF node = "phase2_parallel"
             THEN DictUpdate(acc.merged, "red_flags" :> acc.flags)
             ELSE acc.merged
    IN  WithErrors(DictUpdate(m, "__agent_usage__" :> acc.usage), acc.errors)

phase1_merged(order, oc) ==
    LET res == [a \in Range(Phase1Agents) |-> AgentResult(a, 0)]
        acc == StageCollect(order, oc, res, StageAcc("phase1_done", <<>>))
    IN  StageUpdate("phase1_parallel", acc)

phase1_parallel ==
    /\ pc = "phase1_parallel"
    /\ \E order \in CompletionOrders(Phase1Agents),
          oc \in [Range(Phase1Agents) -> {"ok", "raised"}] :
          /\ Returned("phase1_parallel", phase1_merged(order, oc))
          /\ outcome' = [a \in DOMAIN outcome |->
                            IF a \in DOMAIN oc THEN oc[a] ELSE outcome[a]]
          /\ seen' = [a \in DOMAIN seen |->
                         IF a \in DOMAIN oc THEN Produced(state) ELSE seen[a]]
    /\ UNCHANGED driver
    /\ UNCHANGED gateVars
    /\ UNCHANGED stageVars
    /\ UNCHANGED usageVars
    /\ UNCHANGED adapterVars

phase1_aggregator ==
    /\ pc = "phase1_aggregator"
    /\ Returned("phase1_aggregator", [current_phase |-> "phase2"])
    /\ UNCHANGED <<driver, outcome, seen>>
    /\ UNCHANGED gateVars
    /\ UNCHANGED stageVars
    /\ UNCHANGED usageVars
    /\ UNCHANGED adapterVars

phase2_merged(s, order, oc, k) ==
    LET res == [a \in Range(Phase2Agents) |->
                   IF a = "red_flag" THEN "red_flags" :> FlagList(k)
                   ELSE AgentResult(a, 0)]
        acc == StageCollect(order, oc, res,
                            StageAcc("phase2_done", s["red_flags"]))
    IN  StageUpdate("phase2_parallel", acc)

phase2_parallel ==
    /\ pc = "phase2_parallel"
    /\ \E order \in CompletionOrders(Phase2Agents),
          oc \in [Range(Phase2Agents) -> {"ok", "raised"}],
          k \in 1..MaxFlags :
          /\ Returned("phase2_parallel", phase2_merged(state, order, oc, k))
          /\ outcome' = [a \in DOMAIN outcome |->
                            IF a \in DOMAIN oc THEN oc[a] ELSE outcome[a]]
          /\ seen' = [a \in DOMAIN seen |->
                         IF a \in DOMAIN oc THEN Produced(state) ELSE seen[a]]
    /\ UNCHANGED driver
    /\ UNCHANGED gateVars
    /\ UNCHANGED stageVars
    /\ UNCHANGED usageVars
    /\ UNCHANGED adapterVars

phase2_aggregator ==
    /\ pc = "phase2_aggregator"
    /\ Returned("phase2_aggregator", [current_phase |-> "phase3"])
    /\ UNCHANGED <<driver, outcome, seen>>
    /\ UNCHANGED gateVars
    /\ UNCHANGED stageVars
    /\ UNCHANGED usageVars
    /\ UNCHANGED adapterVars

\* a node that is one agent's run(state): it returns the agent's field, or
\* the agent's exception leaves the node
AgentNode(node, agent) ==
    /\ pc = node
    /\ \/ /\ Returned(node, AgentResult(agent, 0))
          /\ outcome' = [outcome EXCEPT ![agent] = "ok"]
       \/ /\ Raised
          /\ outcome' = [outcome EXCEPT ![agent] = "raised"]
    /\ seen' = [seen EXCEPT ![agent] = Produced(state)]
    /\ UNCHANGED driver
    /\ UNCHANGED gateVars
    /\ UNCHANGED stageVars
    /\ UNCHANGED usageVars
    /\ UNCHANGED adapterVars

fact_checker_node == AgentNode("fact_checker", "fact_checker")

stress_test_node == AgentNode("stress_test", "stress_test")

completeness_node == AgentNode("completeness", "completeness")

orchestrator_node ==
    /\ pc = "orchestrator"
    /\ \/ /\ Returned("orchestrator",
                      [orchestrator_briefing |-> Out("orchestrator", 0)])
          /\ outcome' = [outcome EXCEPT !["orchestrator"] = "ok"]
       \/ /\ Raised
          /\ outcome' = [outcome EXCEPT !["orchestrator"] = "raised"]
    /\ seen' = [seen EXCEPT !["orchestrator"] = Produced(state)]
    /\ UNCHANGED driver
    /\ UNCHANGED gateVars
    /\ UNCHANGED stageVars
    /\ UNCHANGED usageVars
    /\ UNCHANGED adapterVars

final_report_node ==
    /\ pc = "final_report_agent"
    /\ \/ /\ \E rec \in {"INVEST", "WATCH", "PASS"} :
                Returned("final_report_agent",
                         [final_report   |-> Out("final_report_agent", 0),
                          recommendation |-> rec,
                          current_phase  |-> "complete"])
          /\ outcome' = [outcome EXCEPT !["final_report_agent"] = "ok"]
       \/ /\ Raised
          /\ outcome' = [outcome EXCEPT !["final_report_agent"] = "raised"]
    /\ seen' = [seen EXCEPT !["final_report_agent"] = Produced(state)]
    /\ UNCHANGED driver
    /\ UNCHANGED gateVars
    /\ UNCHANGED stageVars
    /\ UNCHANGED usageVars
    /\ UNCHANGED adapterVars

\* after the last node: the job is recorded as complete
Complete ==
    /\ pc = "finish"
    /\ pc' = "end"
    /\ status' = "complete"
    /\ UNCHANGED <<driver, state, progress, result, outcome, seen>>
    /\ UNCHANGED gateVars
    /\ UNCHANGED stageVars
    /\ UNCHANGED usageVars
    /\ job' = IF driver = "app" THEN [job EXCEPT !.token_usage = token_usage]
              ELSE job
    /\ UNCHANGED <<token_usage, uncollected>>
    /\ UNCHANGED adapterVars

----------------------------------------------------------------------------
(* The pipeline run *)

\* the command line (main.py) builds the initial state from its options as
\* given and streams the graph; the app starts its worker thread only when
\* both the company name and the URL are non-blank, and stores the stripped
\* values
Submit ==
    /\ pc = "submit"
    /\ IF driver = "graph"
       THEN /\ pc' = "input_processor"
            /\ status' = "running"
            /\ UNCHANGED state
       ELSE IF Strip(state["company_name"]) # "" /\ state["company_url"] # "none"
       THEN /\ pc' = "input_processor"
            /\ status' = "running"
            /\ state' = [state EXCEPT !["company_name"] = Strip(@)]
       ELSE /\ pc' = "end"
            /\ status' = "not_started"
            /\ UNCHANGED state
    /\ UNCHANGED <<driver, progress, result, outcome, seen>>
    /\ UNCHANGED gateVars
    /\ UNCHANGED stageVars
    /\ UNCHANGED usageVars
    /\ UNCHANGED ledgerVars
    /\ UNCHANGED adapterVars

Init ==
    /\ driver \in {"graph", "app"}
    /\ pc = "submit"
    /\ \E c \in Companies, u \in Urls : state = InitialState(c, u)
    /\ progress = <<>>
    /\ status = "submitted"
    /\ result = EmptyDict
    /\ outcome = [a \in AllAgents |-> "none"]
    /\ seen = [a \in AllAgents |-> {}]
    /\ futures = NoFutures
    /\ stage_acc = StageAcc("idle", <<>>)
    /\ tl = NoCounters
    /\ since = NoCounters
    /\ last_usage = NoUsage
    /\ PoolIdle
    /\ AdmissionIdle
    /\ LedgerIdle
    /\ AdapterIdle
    /\ gate = "none"
    /\ gpc = "idle"
    /\ evaluations = <<>>
    /\ eval_result = NoResult
    /\ to_revise = <<>>
    /\ idx = 0
    /\ working_state = EmptyDict
    /\ state_updates = EmptyDict
    /\ calls = <<>>

Next ==
    \/ Submit
    \/ input_processor
    \/ phase1_parallel
    \/ phase1_aggregator
    \/ phase2_parallel
    \/ phase2_aggregator
    \/ fact_checker_node
    \/ stress_test_node
    \/ completeness_node
    \/ orchestrator_node
    \/ final_report_node
    \/ Complete

Spec == Init /\ [][Next]_vars

----------------------------------------------------------------------------
(* A parallel stage thread by thread: the main thread submits one task per
   agent to the pool, then takes the futures as they complete and merges
   them; each worker thread runs its agent on the state object it was given *)

Stages == {"phase1_parallel", "phase2_parallel"}

StageList(node) ==
    IF node = "phase1_parallel" THEN Phase1Agents ELSE Phase2Agents

\* the state a stage is entered with
StageEntryState(d, node, url) ==
    LET s0 == InitialState("Acme Corp", url)
        s1 == Merge(d, s0, [current_phase |-> "phase1", errors |-> <<>>,
                            red_flags |-> <<>>])
        s2 == [WithOutputs(s1, Phase1Agents) EXCEPT !["current_phase"] = "phase2"]
    IN  IF node = "phase1_parallel" THEN s1 ELSE s2

StageEntryProgress(node) ==
    IF node = "phase1_parallel" THEN <<"input_processor">>
    ELSE <<"input_processor", "phase1_parallel", "phase1_aggregator">>

\* the app's ledger when a stage is entered: one entry per phase-1 agent
\* once phase 1 has run; the graph driver keeps none
LedgerAtStage(d, node) ==
    IF d = "app" /\ node = "phase2_parallel"
    THEN [a \in Range(Phase1Agents) |-> {Run(a, 0)}]
    ELSE EmptyLedger

\* the dict a worker's agent reads: the state object handed to the stage,
\* never the merge under construction
WorkerInputMerging(s, merged) == DictUpdate(s, merged)

WorkerInput(s, merged) == s

\* the loop over as_completed(future_to_name) ends, and the executor's
\* with-block is left, only when every future has been taken
StageDoneEarly(futs) ==
    \E a \in DOMAIN futs : futs[a].st = "collected"

StageDone(futs) ==
    \A a \in DOMAIN futs : futs[a].st = "collected"

\* executor.submit for the next agent of the list
StageSubmit ==
    /\ pc \in Stages
    /\ \E i \in 1..Len(StageList(pc)) :
          /\ futures[StageList(pc)[i]].st = "idle"
          /\ \A j \in 1..(i - 1) : futures[StageList(pc)[j]].st # "idle"
          /\ futures' = [futures EXCEPT ![StageList(pc)[i]].st = "queued"]
    /\ UNCHANGED <<stage_acc, seen>>
    /\ UNCHANGED pipeVars
    /\ UNCHANGED gateVars
    /\ UNCHANGED usageVars
    /\ UNCHANGED ledgerVars
    /\ UNCHANGED adapterVars

\* a worker thread enters fn(state): the agent builds its context
WorkerStart ==
    /\ pc \in Stages
    /\ \E a \in DOMAIN futures :
          /\ futures[a].st = "queued"
          /\ futures' = [futures EXCEPT ![a].st = "running"]
          /\ seen' = [seen EXCEPT ![a] =
                         Produced(WorkerInput(state, stage_acc.merged))]
    /\ UNCHANGED stage_acc
    /\ UNCHANGED pipeVars
    /\ UNCHANGED gateVars
    /\ UNCHANGED usageVars
    /\ UNCHANGED ledgerVars
    /\ UNCHANGED adapterVars

\* the agent returns its update or raises; the future completes
WorkerFinish ==
    /\ pc \in Stages
    /\ \E a \in DOMAIN futures :
          /\ futures[a].st = "running"
          /\ \/ /\ \E k \in 1..MaxFlags :
                      futures' = [futures EXCEPT ![a] =
                          [st  |-> "ok",
                           res |-> IF a = "red_flag" THEN "red_flags" :> FlagList(k)
                                   ELSE AgentResult(a, 0)]]
                /\ outcome' = [outcome EXCEPT ![a] = "ok"]
             \/ /\ futures' = [futures EXCEPT ![a].st = "raised"]
                /\ outcome' = [outcome EXCEPT ![a] = "raised"]
    /\ UNCHANGED <<stage_acc, seen>>
    /\ UNCHANGED <<driver, pc, state, progress, status, result>>
    /\ UNCHANGED gateVars
    /\ UNCHANGED usageVars
    /\ UNCHANGED ledgerVars
    /\ UNCHANGED adapterVars

\* one turn of the loop over as_completed: a completed future is taken and
\* its result merged, or its exception recorded
StageCollectOne ==
    /\ pc \in Stages
    /\ \A b \in DOMAIN futures : futures[b].st # "idle"
    /\ \E a \in DOMAIN futures :
          /\ futures[a].st \in {"ok", "raised"}
          /\ stage_acc' = StageCollect(<<a>>,
                              [b \in DOMAIN futures |-> futures[b].st],
                              [b \in DOMAIN futures |-> futures[b].res],
                              stage_acc)
          /\ futures' = [futures EXCEPT ![a].st = "collected"]
    /\ UNCHANGED seen
    /\ UNCHANGED pipeVars
    /\ UNCHANGED gateVars
    /\ UNCHANGED usageVars
    /\ UNCHANGED ledgerVars
    /\ UNCHANGED adapterVars

\* the stage returns its merged update and the driver merges it
StageReturn ==
    /\ pc \in Stages
    /\ StageDone(futures)
    /\ Returned(pc, StageUpdate(pc, stage_acc))
    /\ UNCHANGED <<driver, outcome, seen>>
    /\ UNCHANGED stageVars
    /\ UNCHANGED gateVars
    /\ UNCHANGED usageVars
    /\ UNCHANGED adapterVars

InitStage ==
    /\ driver \in {"graph", "app"}
    /\ pc \in Stages
    /\ \E u \in (IF driver = "app" THEN Urls \ {"none"} ELSE Urls) :
          state = StageEntryState(driver, pc, u)
    /\ progress = StageEntryProgress(pc)
    /\ status = "running"
    /\ result = EmptyDict
    /\ outcome = [a \in AllAgents |->
                     IF pc = "phase2_parallel" /\ a \in Range(Phase1Agents)
                     THEN "ok" ELSE "none"]
    /\ seen = [a \in AllAgents |-> {}]
    /\ futures = [a \in Range(StageList(pc)) |->
                     [st |-> "idle", res |-> EmptyDict]]
    /\ stage_acc = StageAcc(IF pc = "phase1_parallel" THEN "phase1_done"
                            ELSE "phase2_done", state["red_flags"])
    /\ tl = NoCounters
    /\ since = NoCounters
    /\ last_usage = NoUsage
    /\ PoolIdle
    /\ AdmissionIdle
    /\ token_usage = LedgerAtStage(driver, pc)
    /\ job = [progress |-> progress, token_usage |-> token_usage]
    /\ uncollected = {}
    /\ AdapterIdle
    /\ gate = "none"
    /\ gpc = "idle"
    /\ evaluations = <<>>
    /\ eval_result = NoResult
    /\ to_revise = <<>>
    /\ idx = 0
    /\ working_state = EmptyDict
    /\ state_updates = EmptyDict
    /\ calls = <<>>

NextStage ==
    \/ StageSubmit
    \/ WorkerStart
    \/ WorkerFinish
    \/ StageCollectOne
    \/ StageReturn

SpecStage == InitStage /\ [][NextStage]_vars

----------------------------------------------------------------------------
(* The worker pool of a parallel stage: ThreadPoolExecutor runs each task
   _run_agent_with_usage(fn, state) on one of its threads; a thread that has
   finished a task takes the next one from the work queue *)

\* a future of the pool: its state and, once fn returned, the usage
\* _run_agent_with_usage returned with the result
PoolFuture(st, usage) == [st |-> st, res |-> EmptyDict, usage |-> usage]

\* the model calls of the first run of agent a
OwnTokens(a) == {Run(a, 0)}

\* the work queue is first in, first out: the task submitted earliest among
\* those still queued
FirstQueued(node, futs) ==
    LET list == StageList(node)
        i == CHOOSE i \in 1..Len(list) :
                /\ futs[list[i]].st = "queued"
                /\ \A j \in 1..(i - 1) : futs[list[j]].st # "queued"
    IN  list[i]

\* executor.submit for the next agent of the list; _adjust_thread_count
\* starts a new thread unless a worker is idle
PoolSubmit ==
    /\ pc \in Stages
    /\ \E i \in 1..Len(StageList(pc)) :
          /\ futures[StageList(pc)[i]].st = "idle"
          /\ \A j \in 1..(i - 1) : futures[StageList(pc)[j]].st # "idle"
          /\ futures' = [futures EXCEPT ![StageList(pc)[i]].st = "queued"]
    /\ IF idle_semaphore > 0
       THEN /\ idle_semaphore' = idle_semaphore - 1
            /\ UNCHANGED workers
       ELSE /\ workers' = workers @@
                 ((Cardinality(DOMAIN workers) + 1) :>
                      [task |-> "none", counters |-> {}])
            /\ UNCHANGED idle_semaphore
    /\ UNCHANGED agent_usage
    /\ UNCHANGED <<tl, since, last_usage, admissionVars>>
    /\ UNCHANGED <<stage_acc, seen>>
    /\ UNCHANGED pipeVars
    /\ UNCHANGED gateVars
    /\ UNCHANGED ledgerVars
    /\ UNCHANGED adapterVars

\* thread t is blocked on work_queue.get
Waiting(t) == workers[t].task = "none"

\* a waiting worker thread takes the first task of the queue and enters
\* _run_agent_with_usage; of waiting threads whose counters are the same, which
\* are interchangeable, the one started first is taken
PoolTake ==
    /\ pc \in Stages
    /\ \E a \in DOMAIN futures : futures[a].st = "queued"
    /\ \E t \in DOMAIN workers :
          /\ Waiting(t)
          /\ \A u \in 1..(t - 1) : Waiting(u) => workers[u] # workers[t]
          /\ workers' = [workers EXCEPT ![t].task = FirstQueued(pc, futures)]
          /\ futures' = [futures EXCEPT ![FirstQueued(pc, futures)].st = "running"]
    /\ UNCHANGED <<idle_semaphore, agent_usage>>
    /\ UNCHANGED <<tl, since, last_usage, admissionVars>>
    /\ UNCHANGED <<stage_acc, seen>>
    /\ UNCHANGED pipeVars
    /\ UNCHANGED gateVars
    /\ UNCHANGED ledgerVars
    /\ UNCHANGED adapterVars

\* run_agent on a worker thread: a model call returned and _accum_usage added
\* its tokens to the thread's counters
PoolInvoke ==
    /\ pc \in Stages
    /\ \E t \in DOMAIN workers :
          /\ workers[t].task # "none"
          /\ ~(OwnTokens(workers[t].task) \subseteq workers[t].counters)
          /\ workers' = [workers EXCEPT
                 ![t].counters = @ \cup OwnTokens(workers[t].task)]
    /\ UNCHANGED <<futures, idle_semaphore, agent_usage>>
    /\ UNCHANGED <<tl, since, last_usage, admissionVars>>
    /\ UNCHANGED <<stage_acc, seen>>
    /\ UNCHANGED pipeVars
    /\ UNCHANGED gateVars
    /\ UNCHANGED ledgerVars
    /\ UNCHANGED adapterVars

\* _run_agent_with_usage ends: fn returned, and get_and_reset_usage takes the
\* thread's counters and zeroes them; or fn raised, and the counters are left
\* as they are.  The worker then releases the idle semaphore.
PoolFinish ==
    /\ pc \in Stages
    /\ \E t \in DOMAIN workers :
          /\ workers[t].task # "none"
          /\ \/ /\ OwnTokens(workers[t].task) \subseteq workers[t].counters
                /\ futures' = [futures EXCEPT ![workers[t].task] =
                                  PoolFuture("ok", workers[t].counters)]
                /\ workers' = [workers EXCEPT
                       ![t] = [task |-> "none", counters |-> {}]]
             \/ /\ futures' = [futures EXCEPT ![workers[t].task].st = "raised"]
                /\ workers' = [workers EXCEPT ![t].task = "none"]
    /\ idle_semaphore' = idle_semaphore + 1
    /\ UNCHANGED agent_usage
    /\ UNCHANGED <<tl, since, last_usage, admissionVars>>
    /\ UNCHANGED <<stage_acc, seen>>
    /\ UNCHANGED pipeVars
    /\ UNCHANGED gateVars
    /\ UNCHANGED ledgerVars
    /\ UNCHANGED adapterVars

\* one turn of the loop over as_completed, which starts once every task is
\* submitted: agent_usage[name] = usage, or the failure is noted
PoolCollect ==
    /\ pc \in Stages
    /\ \A b \in DOMAIN futures : futures[b].st # "idle"
    /\ \E a \in DOMAIN futures :
          /\ futures[a].st \in {"ok", "raised"}
          /\ agent_usage' = IF futures[a].st = "ok"
                            THEN (a :> futures[a].usage) @@ agent_usage
                            ELSE agent_usage
          /\ futures' = [futures EXCEPT ![a].st = "collected"]
    /\ UNCHANGED <<workers, idle_semaphore>>
    /\ UNCHANGED <<tl, since, last_usage, admissionVars>>
    /\ UNCHANGED <<stage_acc, seen>>
    /\ UNCHANGED pipeVars
    /\ UNCHANGED gateVars
    /\ UNCHANGED ledgerVars
    /\ UNCHANGED adapterVars

\* merged["__agent_usage__"] = agent_usage; the stage returns
PoolReturn ==
    /\ pc \in Stages
    /\ StageDone(futures)
    /\ pc' = "end"
    /\ UNCHANGED <<driver, state, progress, status, result, outcome>>
    /\ UNCHANGED <<futures, stage_acc, seen>>
    /\ UNCHANGED usageVars
    /\ UNCHANGED gateVars
    /\ UNCHANGED ledgerVars
    /\ UNCHANGED adapterVars

InitPool ==
    /\ driver = "graph"
    /\ pc \in Stages
    /\ state = StageEntryState(driver, pc, "none")
    /\ progress = StageEntryProgress(pc)
    /\ status = "running"
    /\ result = EmptyDict
    /\ outcome = [a \in AllAgents |-> "none"]
    /\ seen = [a \in AllAgents |-> {}]
    /\ futures = [a \in Range(StageList(pc)) |-> PoolFuture("idle", {})]
    /\ stage_acc = StageAcc("idle", <<>>)
    /\ workers = NoWorkers
    /\ idle_semaphore = 0
    /\ agent_usage = NoAgentUsage
    /\ AdmissionIdle
    /\ tl = NoCounters
    /\ since = NoCounters
    /\ last_usage = NoUsage
    /\ LedgerIdle
    /\ AdapterIdle
    /\ gate = "none"
    /\ gpc = "idle"
    /\ evaluations = <<>>
    /\ eval_result = NoResult
    /\ to_revise = <<>>
    /\ idx = 0
    /\ working_state = EmptyDict
    /\ state_updates = EmptyDict
    /\ calls = <<>>

NextPool ==
    \/ PoolSubmit
    \/ PoolTake
    \/ PoolInvoke
    \/ PoolFinish
    \/ PoolCollect
    \/ PoolReturn

SpecPool == InitPool /\ [][NextPool]_vars

----------------------------------------------------------------------------
(* Admission of analysis runs: the submit handler, _analysis_worker,
   _run_pipeline and _save_history_entry of app.py.  Each job has a daemon
   thread; jobs[j].pc is where that thread is:
     "unsubmitted"  no thread yet
     "started"      the thread exists, before its first statement
     "wait"         blocked in _ANALYSIS_SEMAPHORE.acquire()
     "entered"      past acquire, before _run_pipeline
     "pipeline"     in _run_pipeline, running the steps and the PDF
     "loaded"       in _save_history_entry, after _load_history
     "saved"        after _save_history_entry
     "release"      _run_pipeline has returned, in the finally clause
     "done"         the thread has ended *)

\* threading.Semaphore(2)
SEMAPHORE_SLOTS == 2

JobIds == 1..MaxJobs

Job(pc_, st, sem, history) ==
    [pc |-> pc_, status |-> st, sem |-> sem, history |-> history]

\* the thread of job j is inside _run_pipeline
InsidePipeline(j) == jobs[j].pc \in {"pipeline", "loaded", "saved"}

\* the submit handler: the job file is written with status running and the
\* worker thread is started.  _ANALYSIS_SEMAPHORE is the module global of the
\* execution of the script that handles the submission.  Line 16 runs once per
\* execution of the script: the UI framework executes the script anew for
\* every session and every rerun, so every submission is handled by an
\* execution with a semaphore of its own; a runner that executed the script
\* once would give all submissions the one semaphore.  Both are modelled, the
\* second submission decides which.
SubmitJob ==
    /\ pc = "jobs"
    /\ \E j \in JobIds :
          /\ jobs[j].pc = "unsubmitted"
          /\ \A i \in 1..(j - 1) : jobs[i].pc # "unsubmitted"
          /\ \/ /\ Cardinality(DOMAIN semaphores) = j - 1
                /\ semaphores' = semaphores @@
                       ((Cardinality(DOMAIN semaphores) + 1) :> SEMAPHORE_SLOTS)
                /\ jobs' = [jobs EXCEPT ![j] =
                       Job("started", "running",
                           Cardinality(DOMAIN semaphores) + 1, <<>>)]
             \/ /\ Cardinality(DOMAIN semaphores) = 1
                /\ \E s \in DOMAIN semaphores :
                      jobs' = [jobs EXCEPT ![j] =
                                  Job("started", "running", s, <<>>)]
                /\ UNCHANGED semaphores
    /\ UNCHANGED history_file
    /\ UNCHANGED <<tl, since, last_usage, poolVars>>
    /\ UNCHANGED pipeVars
    /\ UNCHANGED gateVars
    /\ UNCHANGED <<seen, futures, stage_acc>>
    /\ UNCHANGED ledgerVars
    /\ UNCHANGED adapterVars

\* _analysis_worker: _update_job(job_id, {"status": "queued"})
WorkerQueued ==
    /\ pc = "jobs"
    /\ \E j \in JobIds :
          /\ jobs[j].pc = "started"
          /\ jobs' = [jobs EXCEPT ![j].pc = "wait", ![j].status = "queued"]
    /\ UNCHANGED <<semaphores, history_file>>
    /\ UNCHANGED <<tl, since, last_usage, poolVars>>
    /\ UNCHANGED pipeVars
    /\ UNCHANGED gateVars
    /\ UNCHANGED <<seen, futures, stage_acc>>
    /\ UNCHANGED ledgerVars
    /\ UNCHANGED adapterVars

\* _ANALYSIS_SEMAPHORE.acquire(): returns once the counter is positive
Acquire ==
    /\ pc = "jobs"
    /\ \E j \in JobIds :
          /\ jobs[j].pc = "wait"
          /\ semaphores[jobs[j].sem] > 0
          /\ semaphores' = [semaphores EXCEPT ![jobs[j].sem] = @ - 1]
          /\ jobs' = [jobs EXCEPT ![j].pc = "entered"]
    /\ UNCHANGED history_file
    /\ UNCHANGED <<tl, since, last_usage, poolVars>>
    /\ UNCHANGED pipeVars
    /\ UNCHANGED gateVars
    /\ UNCHANGED <<seen, futures, stage_acc>>
    /\ UNCHANGED ledgerVars
    /\ UNCHANGED adapterVars

\* _update_job(job_id, {"status": "running", ...}); _run_pipeline is entered
WorkerRunning ==
    /\ pc = "jobs"
    /\ \E j \in JobIds :
          /\ jobs[j].pc = "entered"
          /\ jobs' = [jobs EXCEPT ![j].pc = "pipeline", ![j].status = "running"]
    /\ UNCHANGED <<semaphores, history_file>>
    /\ UNCHANGED <<tl, since, last_usage, poolVars>>
    /\ UNCHANGED pipeVars
    /\ UNCHANGED gateVars
    /\ UNCHANGED <<seen, futures, stage_acc>>
    /\ UNCHANGED ledgerVars
    /\ UNCHANGED adapterVars

\* _run_pipeline: the nine steps and the PDF.  Either they all return and
\* _save_history_entry reads the history file (history = _load_history()), or
\* one of them raises and the except clause writes status error.
PipelineRun ==
    /\ pc = "jobs"
    /\ \E j \in JobIds :
          /\ jobs[j].pc = "pipeline"
          /\ \/ jobs' = [jobs EXCEPT ![j].pc = "loaded",
                                     ![j].history = history_file]
             \/ jobs' = [jobs EXCEPT ![j].pc = "release",
                                     ![j].status = "error"]
    /\ UNCHANGED <<semaphores, history_file>>
    /\ UNCHANGED <<tl, since, last_usage, poolVars>>
    /\ UNCHANGED pipeVars
    /\ UNCHANGED gateVars
    /\ UNCHANGED <<seen, futures, stage_acc>>
    /\ UNCHANGED ledgerVars
    /\ UNCHANGED adapterVars

\* history.insert(0, entry) on the list that was loaded
HistoryWith(history, entry) == <<entry>> \o history

\* _save_history_entry: history.insert(0, entry); hist_file.write_text(...);
\* the list is a local of the function and is gone when it returns
SaveHistory ==
    /\ pc = "jobs"
    /\ \E j \in JobIds :
          /\ jobs[j].pc = "loaded"
          /\ history_file' = HistoryWith(jobs[j].history, j)
          /\ jobs' = [jobs EXCEPT ![j].pc = "saved", ![j].history = <<>>]
    /\ UNCHANGED semaphores
    /\ UNCHANGED <<tl, since, last_usage, poolVars>>
    /\ UNCHANGED pipeVars
    /\ UNCHANGED gateVars
    /\ UNCHANGED <<seen, futures, stage_acc>>
    /\ UNCHANGED ledgerVars
    /\ UNCHANGED adapterVars

\* _update_job(job_id, {"status": "complete", ...}); _run_pipeline returns
MarkComplete ==
    /\ pc = "jobs"
    /\ \E j \in JobIds :
          /\ jobs[j].pc = "saved"
          /\ jobs' = [jobs EXCEPT ![j].pc = "release", ![j].status = "complete"]
    /\ UNCHANGED <<semaphores, history_file>>
    /\ UNCHANGED <<tl, since, last_usage, poolVars>>
    /\ UNCHANGED pipeVars
    /\ UNCHANGED gateVars
    /\ UNCHANGED <<seen, futures, stage_acc>>
    /\ UNCHANGED ledgerVars
    /\ UNCHANGED adapterVars

\* the finally clause of _analysis_worker: the counter after a run that ended
\* with the given status
CounterAfterRunIfComplete(count, st) ==
    IF st = "complete" THEN count + 1 ELSE count

CounterAfterRun(count, st) == count + 1

\* finally: _ANALYSIS_SEMAPHORE.release()
Release ==
    /\ pc = "jobs"
    /\ \E j \in JobIds :
          /\ jobs[j].pc = "release"
          /\ semaphores' = [semaphores EXCEPT ![jobs[j].sem] =
                               CounterAfterRun(@, jobs[j].status)]
          /\ jobs' = [jobs EXCEPT ![j].pc = "done"]
    /\ UNCHANGED history_file
    /\ UNCHANGED <<tl, since, last_usage, poolVars>>
    /\ UNCHANGED pipeVars
    /\ UNCHANGED gateVars
    /\ UNCHANGED <<seen, futures, stage_acc>>
    /\ UNCHANGED ledgerVars
    /\ UNCHANGED adapterVars

InitJobs ==
    /\ pc = "jobs"
    /\ jobs = [j \in JobIds |-> Job("unsubmitted", "none", 0, <<>>)]
    /\ semaphores = NoSemaphores
    /\ history_file = <<>>
    /\ driver = "app"
    /\ state = InitialState("Acme Corp", "none")
    /\ progress = <<>>
    /\ status = "running"
    /\ result = EmptyDict
    /\ outcome = [a \in AllAgents |-> "none"]
    /\ seen = [a \in AllAgents |-> {}]
    /\ futures = NoFutures
    /\ stage_acc = StageAcc("idle", <<>>)
    /\ tl = NoCounters
    /\ since = NoCounters
    /\ last_usage = NoUsage
    /\ PoolIdle
    /\ LedgerIdle
    /\ AdapterIdle
    /\ gate = "none"
    /\ gpc = "idle"
    /\ evaluations = <<>>
    /\ eval_result = NoResult
    /\ to_revise = <<>>
    /\ idx = 0
    /\ working_state = EmptyDict
    /\ state_updates = EmptyDict
    /\ calls = <<>>

NextJobs ==
    \/ SubmitJob
    \/ WorkerQueued
    \/ Acquire
    \/ WorkerRunning
    \/ PipelineRun
    \/ SaveHistory
    \/ MarkComplete
    \/ Release

\* every thread that can take a step eventually takes one
SpecJobs == InitJobs /\ [][NextJobs]_vars /\ WF_vars(NextJobs)

----------------------------------------------------------------------------
(* Token usage: the per-thread counters of agents/base.py *)

\* the thread of the sequential steps, on which up to MaxCalls invocations
\* are followed between two resets, and a pool worker, which makes one
Threads == {"main", "worker"}

ZeroUsage == [input_tokens |-> 0, output_tokens |-> 0]

\* _accum_usage(inp, out) on counters u
AccumOverwrite(u, inp, out) ==
    [input_tokens |-> inp, output_tokens |-> out]

Accum(u, inp, out) ==
    [input_tokens  |-> u.input_tokens + inp,
     output_tokens |-> u.output_tokens + out]

\* run_agent: one model call returned with its usage, which is accumulated
\* on the calling thread
Invoke ==
    /\ pc = "usage"
    /\ \E t \in Threads, inp \in 1..MaxTokens, out \in 1..MaxTokens :
          /\ Len(since[t]) < (IF t = "main" THEN MaxCalls ELSE 1)
          /\ tl' = [tl EXCEPT ![t] = Accum(@, inp, out)]
          /\ since' = [since EXCEPT ![t] = Append(@, <<inp, out>>)]
          /\ last_usage' = IF last_usage.thread = t THEN NoUsage ELSE last_usage
    /\ UNCHANGED <<poolVars, admissionVars>>
    /\ UNCHANGED pipeVars
    /\ UNCHANGED gateVars
    /\ UNCHANGED <<seen, futures, stage_acc>>
    /\ UNCHANGED ledgerVars
    /\ UNCHANGED adapterVars

\* get_and_reset_usage() on thread t
GetAndResetUsage ==
    /\ pc = "usage"
    /\ \E t \in Threads :
          /\ last_usage' = [thread |-> t,
                            input_tokens  |-> tl[t].input_tokens,
                            output_tokens |-> tl[t].output_tokens]
          /\ tl' = [tl EXCEPT ![t] = ZeroUsage]
          /\ since' = [since EXCEPT ![t] = <<>>]
    /\ UNCHANGED <<poolVars, admissionVars>>
    /\ UNCHANGED pipeVars
    /\ UNCHANGED gateVars
    /\ UNCHANGED <<seen, futures, stage_acc>>
    /\ UNCHANGED ledgerVars
    /\ UNCHANGED adapterVars

InitUsage ==
    /\ pc = "usage"
    /\ tl = [t \in Threads |-> ZeroUsage]
    /\ since = [t \in Threads |-> <<>>]
    /\ last_usage = NoUsage
    /\ PoolIdle
    /\ AdmissionIdle
    /\ LedgerIdle
    /\ AdapterIdle
    /\ driver = "none"
    /\ state = InitialState("Acme Corp", "none")
    /\ progress = <<>>
    /\ status = "running"
    /\ result = EmptyDict
    /\ outcome = [a \in AllAgents |-> "none"]
    /\ seen = [a \in AllAgents |-> {}]
    /\ futures = NoFutures
    /\ stage_acc = StageAcc("idle", <<>>)
    /\ gate = "none"
    /\ gpc = "idle"
    /\ evaluations = <<>>
    /\ eval_result = NoResult
    /\ to_revise = <<>>
    /\ idx = 0
    /\ working_state = EmptyDict
    /\ state_updates = EmptyDict
    /\ calls = <<>>

NextUsage ==
    \/ Invoke
    \/ GetAndResetUsage

SpecUsage == InitUsage /\ [][NextUsage]_vars

----------------------------------------------------------------------------
(* The tool executor: execute_tool_call of tools/executor.py *)

\* the tool module execute_tool_call hands a name to, "none" for a name
\* that matches no branch
ToolModule(tool_name) ==
    CASE tool_name \in {"web_search", "news_search"} -> "tavily_tools"
      [] tool_name \in {"get_sec_filings", "get_company_facts"} -> "edgar_tools"
      [] tool_name \in {"extract_pdf_text", "extract_pdf_tables"} -> "pdf_tools"
      [] tool_name \in {"yf_get_info", "yf_get_financials",
                        "yf_get_analyst_data"} -> "yfinance_tools"
      [] tool_name \in {"google_trends_interest", "google_trends_related"} ->
            "pytrends_tools"
      [] tool_name \in {"fred_get_series", "fred_search_series"} -> "fred_tools"
      [] tool_name \in {"github_search_repos", "github_repo_stats"} ->
            "github_tools"
      [] tool_name \in {"search_patents", "get_patent_detail"} -> "patents_tools"
      [] OTHER -> "none"

\* the names with a branch, and three names without one
ToolNames ==
    {"web_search", "news_search", "get_sec_filings", "get_company_facts",
     "extract_pdf_text", "extract_pdf_tables", "yf_get_info",
     "yf_get_financials", "yf_get_analyst_data", "google_trends_interest",
     "google_trends_related", "fred_get_series", "fred_search_series",
     "github_search_repos", "github_repo_stats", "search_patents",
     "get_patent_detail", "bogus_tool", "WEB_SEARCH", ""}

\* how the tool module's execute_tool ends: it returns its JSON result, it
\* returns the error payload its own except clause built, or an exception
\* leaves it (a missing argument, a network failure in a tool without an
\* except clause)
ToolBehaviours == {"returns", "reports_error", "raises"}

\* keys of the _fallbacks dict
FallbackKeys ==
    {"get_sec_filings", "get_company_facts", "yf_get_info",
     "yf_get_financials", "yf_get_analyst_data", "extract_pdf_text",
     "extract_pdf_tables", "news_search", "google_trends_interest",
     "google_trends_related", "fred_get_series", "fred_search_series",
     "github_search_repos", "github_repo_stats", "search_patents",
     "get_patent_detail"}

\* _fallbacks.get(tool_name, "web_search")
FallbackFor(tool_name) ==
    IF tool_name \in FallbackKeys THEN "web_search" ELSE "web_search"

\* _tool_error: the JSON text of the error object; action is the sentence
\* f"Use '{fallback}' to find the same information instead.", word by word
ToolError(tool_name, message, fallback) ==
    [kind    |-> "str",
     error   |-> "tool_unavailable",
     tool    |-> tool_name,
     message |-> message,
     action  |-> IF fallback = "" THEN <<>>
                 ELSE <<"Use", fallback, "to", "find", "the", "same",
                        "information", "instead">>]

\* the JSON text a tool module returned: its result, or its own error payload
ToolOutput(tool_name, behaviour) ==
    [kind    |-> "str",
     error   |-> IF behaviour = "reports_error" THEN "reported_by_tool"
                 ELSE "none",
     tool    |-> tool_name,
     message |-> "",
     action  |-> <<>>]

\* execute_tool_call(tool_name, tool_input) when the tool behaves as given
ExecuteToolCallPropagating(tool_name, behaviour) ==
    IF ToolModule(tool_name) # "none" /\ behaviour = "raises"
    THEN [kind |-> "raise", error |-> "Exception", tool |-> tool_name,
          message |-> "tool failed", action |-> <<>>]
    ELSE IF ToolModule(tool_name) # "none"
    THEN ToolOutput(tool_name, behaviour)
    ELSE ToolError(tool_name, "Unknown tool", "web_search")

ExecuteToolCall(tool_name, behaviour) ==
    IF ToolModule(tool_name) # "none"
    THEN IF behaviour = "raises"
         THEN ToolError(tool_name, "tool failed", FallbackFor(tool_name))
         ELSE ToolOutput(tool_name, behaviour)
    ELSE ToolError(tool_name, "Unknown tool", "web_search")

\* one call of execute_tool_call
ExecuteTool ==
    /\ pc = "tool"
    /\ tool_result = NoResult
    /\ tool_result' = ExecuteToolCall(tool_call.name, tool_call.behaviour)
    /\ UNCHANGED tool_call
    /\ UNCHANGED <<retryVars, agentVars, parseVars>>
    /\ UNCHANGED pipeVars
    /\ UNCHANGED gateVars
    /\ UNCHANGED <<seen, futures, stage_acc>>
    /\ UNCHANGED usageVars
    /\ UNCHANGED ledgerVars

\* everything outside the adapter is at rest
RunIdle ==
    /\ driver = "none"
    /\ state = InitialState("Acme Corp", "none")
    /\ progress = <<>>
    /\ status = "running"
    /\ result = EmptyDict
    /\ outcome = [a \in AllAgents |-> "none"]
    /\ seen = [a \in AllAgents |-> {}]
    /\ futures = NoFutures
    /\ stage_acc = StageAcc("idle", <<>>)
    /\ tl = NoCounters
    /\ since = NoCounters
    /\ last_usage = NoUsage
    /\ PoolIdle
    /\ AdmissionIdle
    /\ LedgerIdle
    /\ gate = "none"
    /\ gpc = "idle"
    /\ evaluations = <<>>
    /\ eval_result = NoResult
    /\ to_revise = <<>>
    /\ idx = 0
    /\ working_state = EmptyDict
    /\ state_updates = EmptyDict
    /\ calls = <<>>

InitTool ==
    /\ pc = "tool"
    /\ tool_call \in [name : ToolNames, behaviour : ToolBehaviours]
    /\ tool_result = NoResult
    /\ RetryIdle
    /\ AgentIdle
    /\ ParseIdle
    /\ RunIdle

NextTool == ExecuteTool

SpecTool == InitTool /\ [][NextTool]_vars

----------------------------------------------------------------------------
(* Retry on rate limit: _create_with_retry of agents/base.py *)

\* how one client.messages.create call ends: a response, a rate-limit
\* error, or another exception of the client
ProviderOutcomes ==
    {"ok", "RateLimitError", "InternalServerError", "APIConnectionError",
     "APITimeoutError"}

\* except anthropic.RateLimitError
RetryableAny(exc) == TRUE

Retryable(exc) == exc = "RateLimitError"

\* 2 ** n
RECURSIVE Pow2(_)
Pow2(n) == IF n = 0 THEN 1 ELSE 2 * Pow2(n - 1)

\* wait = min(60, 10 * (2 ** attempt))
WaitUncapped(n) == 10 * Pow2(n)

Wait(n) == IF 10 * Pow2(n) < 60 THEN 10 * Pow2(n) ELSE 60

\* one turn of the loop for attempt in range(max_retries)
RetryAttempt ==
    /\ pc = "retry"
    /\ retry_out = "running"
    /\ attempt < max_retries
    /\ \E o \in ProviderOutcomes :
          /\ created' = Append(created, o)
          /\ IF o = "ok"
             THEN /\ retry_out' = "returned"
                  /\ UNCHANGED <<attempt, slept>>
             ELSE IF Retryable(o)
             THEN /\ slept' = Append(slept, Wait(attempt))
                  /\ attempt' = attempt + 1
                  /\ UNCHANGED retry_out
             ELSE /\ retry_out' = o
                  /\ UNCHANGED <<attempt, slept>>
    /\ UNCHANGED max_retries
    /\ UNCHANGED <<toolVars, agentVars, parseVars>>
    /\ UNCHANGED pipeVars
    /\ UNCHANGED gateVars
    /\ UNCHANGED <<seen, futures, stage_acc>>
    /\ UNCHANGED usageVars
    /\ UNCHANGED ledgerVars

\* the call after the loop: whatever it raises leaves the function
RetryFinalAttempt ==
    /\ pc = "retry"
    /\ retry_out = "running"
    /\ attempt >= max_retries
    /\ \E o \in ProviderOutcomes :
          /\ created' = Append(created, o)
          /\ retry_out' = IF o = "ok" THEN "returned" ELSE o
    /\ UNCHANGED <<max_retries, attempt, slept>>
    /\ UNCHANGED <<toolVars, agentVars, parseVars>>
    /\ UNCHANGED pipeVars
    /\ UNCHANGED gateVars
    /\ UNCHANGED <<seen, futures, stage_acc>>
    /\ UNCHANGED usageVars
    /\ UNCHANGED ledgerVars

InitRetry ==
    /\ pc = "retry"
    /\ max_retries \in 0..MaxRetries
    /\ attempt = 0
    /\ created = <<>>
    /\ slept = <<>>
    /\ retry_out = "running"
    /\ ToolIdle
    /\ AgentIdle
    /\ ParseIdle
    /\ RunIdle

NextRetry ==
    \/ RetryAttempt
    \/ RetryFinalAttempt

\* the provider call and the sleep both end, and the thread keeps running
SpecRetry == InitRetry /\ [][NextRetry]_vars /\ WF_vars(NextRetry)

----------------------------------------------------------------------------
(* Structured-result extraction: _parse_json_response of agents/base.py *)

(* A text is a sequence of tokens, each standing for the characters named:
   "fence_json" is a code fence with the json tag and "fence" a bare code
   fence (the characters of the second are a substring of the first), "{" and "}" are braces outside any string, "k:" is a member
   key with its colon, "1" is a number, "s}" is the string literal "}" (a
   closing brace inside quotes) and "p" is a word of prose.  Blanks between
   tokens are left out: json.loads skips them and str.strip() removes only
   them, so neither changes the outcome. *)
Tokens == {"fence_json", "fence", "{", "}", "k:", "1", "s}", "p"}

\* the tokens in which three backquotes occur
Fences == {"fence_json", "fence"}

\* all texts of at most n tokens
TextsUpTo(n) == UNION {[1..k -> Tokens] : k \in 0..n}

\* str.find from a position: the first place at or after `from` holding a
\* token of the set, 0 when there is none (where str.index raises ValueError)
Find(t, set, from) ==
    IF \E i \in from..Len(t) : t[i] \in set
    THEN CHOOSE i \in from..Len(t) :
            /\ t[i] \in set
            /\ \A j \in from..(i - 1) : t[j] \notin set
    ELSE 0

\* the texts json.loads accepts: a number, a string, or an object with no
\* member or with one member whose value is such a text
RECURSIVE IsJson(_)
IsJson(t) ==
    \/ t = <<"1">>
    \/ t = <<"s}">>
    \/ /\ Len(t) >= 2
       /\ t[1] = "{"
       /\ t[Len(t)] = "}"
       /\ LET inner == SubSeq(t, 2, Len(t) - 1)
          IN  \/ inner = <<>>
              \/ /\ Len(inner) >= 2
                 /\ inner[1] = "k:"
                 /\ IsJson(Tail(inner))

\* what json.loads returns for a text it accepts: a dict, an int or a str
Loaded(t) ==
    [kind |-> CASE t[1] = "{" -> "object"
                [] t[1] = "1" -> "number"
                [] OTHER      -> "string",
     doc  |-> t]

\* {"raw": text}
Raw(t) == [kind |-> "raw", doc |-> t]

\* an exception leaving the function
Raise(exc) == [kind |-> exc, doc |-> <<>>]

\* the text between the opening fence at position i and the next fence;
\* text.index(fence, start) raises ValueError when there is no next fence
Fenced(t, i) ==
    LET end == Find(t, Fences, i + 1)
    IN  IF end = 0 THEN Raise("ValueError")
        ELSE [kind |-> "cleaned", doc |-> SubSeq(t, i + 1, end - 1)]

\* lines 155-163: the text json.loads is first tried on
Cleaned(t) ==
    IF Find(t, {"fence_json"}, 1) # 0 THEN Fenced(t, Find(t, {"fence_json"}, 1))
    ELSE IF Find(t, Fences, 1) # 0 THEN Fenced(t, Find(t, Fences, 1))
    ELSE [kind |-> "cleaned", doc |-> t]

\* the loop over text[brace_start:]: depth counts every brace character,
\* inside a string or not; at depth 0 the span is tried and the loop ends.  A
\* span that ends on the brace inside "s}" ends inside the string literal.
RECURSIVE BraceScan(_, _, _, _)
BraceScan(t, brace_start, i, depth) ==
    IF i > Len(t) THEN Raw(t)
    ELSE IF t[i] = "{" THEN BraceScan(t, brace_start, i + 1, depth + 1)
    ELSE IF t[i] = "}" /\ depth = 1
    THEN IF IsJson(SubSeq(t, brace_start, i))
         THEN Loaded(SubSeq(t, brace_start, i))
         ELSE Raw(t)
    ELSE IF t[i] = "s}" /\ depth = 1 THEN Raw(t)
    ELSE IF t[i] \in {"}", "s}"} THEN BraceScan(t, brace_start, i + 1, depth - 1)
    ELSE BraceScan(t, brace_start, i + 1, depth)

\* the except branch: text.find("{") and the scan from there
BraceFallback(t) ==
    LET brace_start == Find(t, {"{"}, 1)
    IN  IF brace_start = 0 THEN Raw(t)
        ELSE BraceScan(t, brace_start, brace_start, 0)

\* _parse_json_response(text)
ParseJsonResponse(t) ==
    LET c == Cleaned(t)
    IN  IF c.kind # "cleaned" THEN c
        ELSE IF IsJson(c.doc) THEN Loaded(c.doc)
        ELSE BraceFallback(t)

\* the output an earlier run of the agent left in its state field
PriorObject == [kind |-> "object", doc |-> <<"{", "}">>]

\* run_agent's last statement: return _parse_json_response(final_text)
ParseResponse ==
    /\ pc = "parse"
    /\ parsed = NoResult
    /\ parsed' = ParseJsonResponse(final_text)
    /\ UNCHANGED <<final_text, slot>>
    /\ UNCHANGED <<toolVars, retryVars, agentVars>>
    /\ UNCHANGED pipeVars
    /\ UNCHANGED gateVars
    /\ UNCHANGED <<seen, futures, stage_acc>>
    /\ UNCHANGED usageVars
    /\ UNCHANGED ledgerVars

\* the agent's run() returns {field: result} and the caller merges it into
\* the state (first run or revision); an exception of run_agent leaves run()
\* and nothing is stored
StoreResult ==
    /\ pc = "parse"
    /\ parsed # NoResult
    /\ parsed.kind \in {"object", "number", "string", "raw"}
    /\ slot' = parsed
    /\ pc' = "stored"
    /\ UNCHANGED <<final_text, parsed>>
    /\ UNCHANGED <<toolVars, retryVars, agentVars>>
    /\ UNCHANGED <<driver, state, progress, status, result, outcome>>
    /\ UNCHANGED gateVars
    /\ UNCHANGED <<seen, futures, stage_acc>>
    /\ UNCHANGED usageVars
    /\ UNCHANGED ledgerVars

InitParse ==
    /\ pc = "parse"
    /\ final_text \in TextsUpTo(MaxTextLen)
    /\ parsed = NoResult
    /\ slot \in {NoResult, PriorObject}
    /\ ToolIdle
    /\ RetryIdle
    /\ AgentIdle
    /\ RunIdle

NextParse ==
    \/ ParseResponse
    \/ StoreResult

SpecParse == InitParse /\ [][NextParse]_vars

----------------------------------------------------------------------------
(* The recommendation of the memo: _extract_recommendation of
   agents/phase4/final_report.py *)

(* A memo is a sequence of tokens separated by single spaces:
     json_key   {"recommendation":          bold_key   **Recommendation:**
     why        ### Why                     rec        the word recommendation
     INVEST, PASS                           a value in capitals
     watch      a value in small letters
     qPASS, qinvest                         a value between double quotes
     nl         a line break                long       101 letters
     p          any other word *)
MemoTokens ==
    {"json_key", "bold_key", "why", "rec", "INVEST", "PASS", "watch",
     "qPASS", "qinvest", "nl", "long", "p"}

\* all memos of at most n tokens
MemosUpTo(n) == UNION {[1..k -> MemoTokens] : k \in 0..n}

\* the text the group (INVEST|WATCH|PASS) captures in a value token
Captured(tok) ==
    CASE tok = "INVEST"  -> "INVEST"
      [] tok = "PASS"    -> "PASS"
      [] tok = "watch"   -> "watch"
      [] tok = "qPASS"   -> "PASS"
      [] tok = "qinvest" -> "invest"

\* str.upper()
Upper(s) ==
    CASE s = "invest" -> "INVEST"
      [] s = "watch"  -> "WATCH"
      [] s = "pass"   -> "PASS"
      [] OTHER        -> s

\* a value right after an opening double quote, in any case
QuotedValues == {"qPASS", "qinvest"}

\* a value with nothing before it, in any case
BareValues == {"INVEST", "PASS", "watch"}

\* the tokens in which INVEST, WATCH or PASS occurs in capitals
CapitalValues == {"INVEST", "PASS", "qPASS"}

\* the tokens in which [Rr]ecommendation occurs
Keywords == {"json_key", "bold_key", "rec"}

\* the tokens `.{0,100}` cannot run across: a line break, or more than 100
\* characters
Barriers == {"nl", "long"}

\* \s* from position i: the first position that is not white space
RECURSIVE SkipSpace(_, _)
SkipSpace(t, i) ==
    IF i <= Len(t) /\ t[i] = "nl" THEN SkipSpace(t, i + 1) ELSE i

\* re.search of  key \s* (value) : the positions where the key is followed,
\* after white space only, by a token of `values`
KeyMatches(t, key, values) ==
    {i \in 1..Len(t) :
        /\ t[i] = key
        /\ SkipSpace(t, i + 1) <= Len(t)
        /\ t[SkipSpace(t, i + 1)] \in values}

Least(S) == CHOOSE i \in S : \A j \in S : i <= j

Greatest(S) == CHOOSE i \in S : \A j \in S : j <= i

\* what the leftmost match of  key \s* (value)  captures, "none" without match
KeySearch(t, key, values) ==
    IF KeyMatches(t, key, values) = {} THEN "none"
    ELSE Captured(t[SkipSpace(t, Least(KeyMatches(t, key, values)) + 1)])

\* the capital values that `.{0,100}` reaches from the keyword at position i
Reach(t, i) ==
    {j \in (i + 1)..Len(t) :
        /\ t[j] \in CapitalValues
        /\ \A k \in (i + 1)..(j - 1) : t[k] \notin Barriers}

\* re.search(r'[Rr]ecommendation.{0,100}(INVEST|WATCH|PASS)'): the leftmost
\* keyword that reaches a value, and, the quantifier being greedy, the last
\* value it reaches
BroadSearch(t) ==
    LET starts == {i \in 1..Len(t) : t[i] \in Keywords /\ Reach(t, i) # {}}
    IN  IF starts = {} THEN "none"
        ELSE Captured(t[Greatest(Reach(t, Least(starts)))])

\* the four searches in the order of the function
JsonBlock(t) == KeySearch(t, "json_key", QuotedValues)

BoldLine(t) == KeySearch(t, "bold_key", BareValues)

WhyHeading(t) == KeySearch(t, "why", BareValues)

ExtractRecommendationBoldFirst(t) ==
    IF BoldLine(t) # "none" THEN Upper(BoldLine(t))
    ELSE IF JsonBlock(t) # "none" THEN Upper(JsonBlock(t))
    ELSE IF WhyHeading(t) # "none" THEN Upper(WhyHeading(t))
    ELSE IF BroadSearch(t) # "none" THEN Upper(BroadSearch(t))
    ELSE "WATCH"

ExtractRecommendation(t) ==
    IF JsonBlock(t) # "none" THEN Upper(JsonBlock(t))
    ELSE IF BoldLine(t) # "none" THEN Upper(BoldLine(t))
    ELSE IF WhyHeading(t) # "none" THEN Upper(WhyHeading(t))
    ELSE IF BroadSearch(t) # "none" THEN Upper(BroadSearch(t))
    ELSE "WATCH"

\* final_report.run: recommendation = _extract_recommendation(memo_text)
ExtractStep ==
    /\ pc = "extract"
    /\ result' = [recommendation |-> ExtractRecommendation(final_text)]
    /\ pc' = "end"
    /\ UNCHANGED <<driver, state, progress, status, outcome>>
    /\ UNCHANGED <<final_text, parsed, slot>>
    /\ UNCHANGED <<toolVars, retryVars, agentVars>>
    /\ UNCHANGED gateVars
    /\ UNCHANGED <<seen, futures, stage_acc>>
    /\ UNCHANGED usageVars
    /\ UNCHANGED ledgerVars

InitMemo ==
    /\ pc = "extract"
    /\ final_text \in MemosUpTo(MaxMemoLen)
    /\ parsed = NoResult
    /\ slot = NoResult
    /\ ToolIdle
    /\ RetryIdle
    /\ AgentIdle
    /\ RunIdle

NextMemo == ExtractStep

SpecMemo == InitMemo /\ [][NextMemo]_vars

----------------------------------------------------------------------------
(* The agent loop: run_agent of agents/base.py *)

\* content blocks of a model response
TextBlock(t) == [type |-> "text", text |-> t]

ToolUse(id, name) == [type |-> "tool_use", id |-> id, name |-> name]

\* the responses the model may give: a final text (prose, an object, a fence
\* left open, nothing at all), one tool request, or prose with two requests,
\* the second for a tool that does not exist; usage is what the response
\* reports, if it reports any
Responses ==
    {[content |-> <<TextBlock(<<"p">>)>>, usage |-> <<1, 1>>, has_usage |-> TRUE],
     [content |-> <<TextBlock(<<"{", "}">>)>>, usage |-> <<1, 1>>, has_usage |-> TRUE],
     [content |-> <<TextBlock(<<"fence_json", "{", "}">>)>>, usage |-> <<1, 1>>, has_usage |-> TRUE],
     [content |-> <<>>, usage |-> <<0, 0>>, has_usage |-> FALSE],
     [content |-> <<ToolUse(1, "web_search")>>, usage |-> <<1, 1>>, has_usage |-> TRUE],
     [content |-> <<TextBlock(<<"p">>), ToolUse(1, "yf_get_info"),
                    ToolUse(2, "bogus_tool")>>, usage |-> <<1, 1>>, has_usage |-> TRUE]}

\* the provider gives every tool_use block an id of its own: the block's
\* number within the response, together with the round of the response
WithIds(content, round) ==
    [i \in 1..Len(content) |->
        IF content[i].type = "tool_use"
        THEN [content[i] EXCEPT !.id = <<round, content[i].id>>]
        ELSE content[i]]

\* the blocks of one type, in order
RECURSIVE BlocksOf(_, _)
BlocksOf(content, type) ==
    IF content = <<>> THEN <<>>
    ELSE IF Head(content).type = type
         THEN <<Head(content)>> \o BlocksOf(Tail(content), type)
         ELSE BlocksOf(Tail(content), type)

\* "\n".join(b.text for b in text_blocks).strip()
RECURSIVE JoinText(_)
JoinText(blocks) ==
    IF blocks = <<>> THEN <<>> ELSE Head(blocks).text \o JoinText(Tail(blocks))

\* the text of the for loop's else clause
SentinelText ==
    <<"Agent", "exceeded", "maximum", "iterations", "without", "completing">>

\* for _ in range(max_iterations): is there another turn
LoopContinuesOneMore(n, max) == n <= max

LoopContinues(n, max) == n < max

\* the observation of one tool_use block: the string execute_tool_call
\* returned, or the JSON text of {"error": str(exc)} had it raised
ToolContent(r) ==
    IF r.kind = "raise"
    THEN [kind |-> "str", error |-> r.message, tool |-> "", message |-> "",
          action |-> <<>>]
    ELSE r

ToolResultEntryUntagged(tb, content) ==
    [type |-> "tool_result", tool_use_id |-> <<0, 0>>, content |-> content]

ToolResultEntry(tb, content) ==
    [type |-> "tool_result", tool_use_id |-> tb.id, content |-> content]

\* the tool_use blocks of the last message of the transcript
Requested == BlocksOf(messages[Len(messages)].content, "tool_use")

\* response = _create_with_retry(...): the model answers, its usage is
\* accumulated and the answer appended; without tool requests the loop is
\* left with the final text; or the call raises and the exception leaves
\* run_agent
ModelCall ==
    /\ pc = "agent"
    /\ apc = "call"
    /\ LoopContinues(rounds, max_iterations)
    /\ rounds' = rounds + 1
    /\ \/ \E r \in Responses :
            /\ messages' = Append(messages,
                              [role |-> "assistant",
                               content |-> WithIds(r.content, rounds')])
            /\ tl' = IF ~r.has_usage THEN tl
                     ELSE [tl EXCEPT !["main"] = Accum(@, r.usage[1], r.usage[2])]
            /\ IF BlocksOf(r.content, "tool_use") # <<>>
               THEN /\ apc' = "tools"
                    /\ UNCHANGED final_text
               ELSE /\ apc' = "parse"
                    /\ final_text' = JoinText(BlocksOf(r.content, "text"))
            /\ UNCHANGED agent_out
       \/ \E exc \in ProviderOutcomes \ {"ok"} :
            /\ apc' = "raised"
            /\ agent_out' = Raise(exc)
            /\ UNCHANGED <<messages, tl, final_text>>
    /\ UNCHANGED <<max_iterations, tool_results>>
    /\ UNCHANGED <<parsed, slot, since, last_usage>>
    /\ UNCHANGED <<toolVars, retryVars>>
    /\ UNCHANGED <<poolVars, admissionVars>>
    /\ UNCHANGED pipeVars
    /\ UNCHANGED gateVars
    /\ UNCHANGED <<seen, futures, stage_acc>>
    /\ UNCHANGED ledgerVars

\* one turn of for tb in tool_use_blocks
ToolStep ==
    /\ pc = "agent"
    /\ apc = "tools"
    /\ Len(tool_results) < Len(Requested)
    /\ \E b \in ToolBehaviours :
          LET tb == Requested[Len(tool_results) + 1]
          IN  tool_results' = Append(tool_results,
                  ToolResultEntry(tb, ToolContent(ExecuteToolCall(tb.name, b))))
    /\ UNCHANGED <<apc, max_iterations, rounds, messages, agent_out>>
    /\ UNCHANGED <<toolVars, retryVars, parseVars>>
    /\ UNCHANGED pipeVars
    /\ UNCHANGED gateVars
    /\ UNCHANGED <<seen, futures, stage_acc>>
    /\ UNCHANGED usageVars
    /\ UNCHANGED ledgerVars

\* messages.append({"role": "user", "content": tool_results}); continue
ToolsDone ==
    /\ pc = "agent"
    /\ apc = "tools"
    /\ Len(tool_results) = Len(Requested)
    /\ messages' = Append(messages, [role |-> "user", content |-> tool_results])
    /\ tool_results' = <<>>
    /\ apc' = "call"
    /\ UNCHANGED <<max_iterations, rounds, agent_out>>
    /\ UNCHANGED <<toolVars, retryVars, parseVars>>
    /\ UNCHANGED pipeVars
    /\ UNCHANGED gateVars
    /\ UNCHANGED <<seen, futures, stage_acc>>
    /\ UNCHANGED usageVars
    /\ UNCHANGED ledgerVars

\* the else clause of the for loop
Exhausted ==
    /\ pc = "agent"
    /\ apc = "call"
    /\ ~LoopContinues(rounds, max_iterations)
    /\ final_text' = SentinelText
    /\ apc' = "parse"
    /\ UNCHANGED <<max_iterations, rounds, messages, tool_results, agent_out>>
    /\ UNCHANGED <<parsed, slot>>
    /\ UNCHANGED <<toolVars, retryVars>>
    /\ UNCHANGED pipeVars
    /\ UNCHANGED gateVars
    /\ UNCHANGED <<seen, futures, stage_acc>>
    /\ UNCHANGED usageVars
    /\ UNCHANGED ledgerVars

\* return _parse_json_response(final_text)
AgentReturn ==
    /\ pc = "agent"
    /\ apc = "parse"
    /\ parsed' = ParseJsonResponse(final_text)
    /\ agent_out' = parsed'
    /\ apc' = IF parsed'.kind = "ValueError" THEN "raised" ELSE "returned"
    /\ UNCHANGED <<max_iterations, rounds, messages, tool_results>>
    /\ UNCHANGED <<final_text, slot>>
    /\ UNCHANGED <<toolVars, retryVars>>
    /\ UNCHANGED pipeVars
    /\ UNCHANGED gateVars
    /\ UNCHANGED <<seen, futures, stage_acc>>
    /\ UNCHANGED usageVars
    /\ UNCHANGED ledgerVars

InitAgent ==
    /\ pc = "agent"
    /\ apc = "call"
    /\ max_iterations \in 0..MaxIterations
    /\ rounds = 0
    /\ messages = <<[role |-> "user", content |-> <<TextBlock(<<"p">>)>>]>>
    /\ tool_results = <<>>
    /\ agent_out = NoResult
    /\ ToolIdle
    /\ RetryIdle
    /\ ParseIdle
    /\ driver = "none"
    /\ state = InitialState("Acme Corp", "none")
    /\ progress = <<>>
    /\ status = "running"
    /\ result = EmptyDict
    /\ outcome = [a \in AllAgents |-> "none"]
    /\ seen = [a \in AllAgents |-> {}]
    /\ futures = NoFutures
    /\ stage_acc = StageAcc("idle", <<>>)
    /\ tl = [t \in {"main"} |-> ZeroUsage]
    /\ since = NoCounters
    /\ last_usage = NoUsage
    /\ PoolIdle
    /\ AdmissionIdle
    /\ LedgerIdle
    /\ gate = "none"
    /\ gpc = "idle"
    /\ evaluations = <<>>
    /\ eval_result = NoResult
    /\ to_revise = <<>>
    /\ idx = 0
    /\ working_state = EmptyDict
    /\ state_updates = EmptyDict
    /\ calls = <<>>

NextAgent ==
    \/ ModelCall
    \/ ToolStep
    \/ ToolsDone
    \/ Exhausted
    \/ AgentReturn

\* the model call, each tool call and the thread's own steps all end
SpecAgent == InitAgent /\ [][NextAgent]_vars /\ WF_vars(NextAgent)

----------------------------------------------------------------------------
(* The quality gates: phase1_check.run, phase2_check.run, phase3_check.run *)

\* revise only below this score (hundredths)
REVISION_THRESHOLD == 65

\* at most this many agents are re-run per phase
REVISION_CAP == 3

\* e.get("score", 1.0): the score a missing key stands for (hundredths)
DEFAULT_SCORE == 100

Gates == {"phase1", "phase2", "phase3"}

\* AGENT_NAMES of each gate: the agents the evaluation pass is asked to score
GateAgentNames(g) ==
    CASE g = "phase1" -> Phase1Agents
      [] g = "phase2" -> Phase2Agents
      [] g = "phase3" -> <<"fact_checker", "stress_test", "completeness">>

\* keys of _agent_map() of each gate: the agents it can re-run
GateAgentMapAll(g) == Range(GateAgentNames(g))

GateAgentMap(g) ==
    CASE g = "phase1" -> Range(Phase1Agents)
      [] g = "phase2" -> {"bull_case", "bear_case", "valuation"}
      [] g = "phase3" -> {"fact_checker", "stress_test"}

\* the agents whose run() declares the revision_brief parameter; calling any
\* other run(working_state, revision_brief=brief) is a TypeError
AcceptsBrief(agent) ==
    agent \in {"management_team", "bear_case", "fact_checker", "completeness"}

\* one entry of the evaluation list
Eval(name, has_score, score, needs, brief) ==
    [agent_name |-> name, has_score |-> has_score, score |-> score,
     needs_revision |-> needs, revision_brief |-> brief]

ScoreOf(e) == IF e.has_score THEN e.score ELSE DEFAULT_SCORE

\* the filter of revise_agents
EligibleAtThreshold(g, e) ==
    /\ e.needs_revision
    /\ ScoreOf(e) <= REVISION_THRESHOLD
    /\ e.agent_name \in GateAgentMap(g)

Eligible(g, e) ==
    /\ e.needs_revision
    /\ ScoreOf(e) < REVISION_THRESHOLD
    /\ e.agent_name \in GateAgentMap(g)

RECURSIVE Filter(_, _)
Filter(g, evs) ==
    IF evs = <<>> THEN <<>>
    ELSE IF Eligible(g, Head(evs)) THEN <<Head(evs)>> \o Filter(g, Tail(evs))
         ELSE Filter(g, Tail(evs))

\* list.sort(key=score): stable, ascending
RECURSIVE InsertByScoreBeforeTies(_, _)
InsertByScoreBeforeTies(sorted, e) ==
    IF sorted = <<>> THEN <<e>>
    ELSE IF ScoreOf(e) <= ScoreOf(Head(sorted)) THEN <<e>> \o sorted
         ELSE <<Head(sorted)>> \o InsertByScoreBeforeTies(Tail(sorted), e)

RECURSIVE InsertByScore(_, _)
InsertByScore(sorted, e) ==
    IF sorted = <<>> THEN <<e>>
    ELSE IF ScoreOf(e) < ScoreOf(Head(sorted)) THEN <<e>> \o sorted
         ELSE <<Head(sorted)>> \o InsertByScore(Tail(sorted), e)

RECURSIVE SortByScore(_)
SortByScore(evs) ==
    IF evs = <<>> THEN <<>>
    ELSE InsertByScore(SortByScore(SubSeq(evs, 1, Len(evs) - 1)), evs[Len(evs)])

\* to_revise[:3]
CapUncapped(evs) == evs

Cap(evs) == SubSeq(evs, 1, IF Len(evs) < REVISION_CAP THEN Len(evs) ELSE REVISION_CAP)

\* filter, sort, cap: the brief is looked at only inside the loop, after the cap
SelectBriefed(g, evs) ==
    LET HasBrief(e) == e.revision_brief # ""
    IN  Cap(SelectSeq(SortByScore(Filter(g, evs)), HasBrief))

Select(g, evs) == Cap(SortByScore(Filter(g, evs)))

\* the evaluation entries the evaluation pass may return for one agent
Profiles ==
    {[has_score |-> TRUE,  score |-> 40, needs |-> TRUE,  brief |-> "fix the gaps"],
     [has_score |-> TRUE,  score |-> 50, needs |-> TRUE,  brief |-> "fix the gaps"],
     [has_score |-> TRUE,  score |-> 65, needs |-> TRUE,  brief |-> "fix the gaps"],
     [has_score |-> FALSE, score |-> 0,  needs |-> TRUE,  brief |-> "fix the gaps"],
     [has_score |-> TRUE,  score |-> 40, needs |-> FALSE, brief |-> "fix the gaps"],
     [has_score |-> TRUE,  score |-> 40, needs |-> TRUE,  brief |-> ""],
     [has_score |-> TRUE,  score |-> 70, needs |-> FALSE, brief |-> ""]}

\* the i-th entry names the gate's agents in AGENT_NAMES order, starting over
\* after the last one
RosterName(g, i) ==
    LET names == GateAgentNames(g) IN names[((i - 1) % Len(names)) + 1]

\* an evaluation pass returns at most one entry more than the agents it was
\* asked to score, and never more than MaxEvals
MaxListLen(g) ==
    LET n == Len(GateAgentNames(g)) + 1 IN IF n < MaxEvals THEN n ELSE MaxEvals

\* the evaluation list of length n whose i-th entry has profile p[i]
EvaluationList(g, n, p) ==
    [i \in 1..n |-> Eval(RosterName(g, i), p[i].has_score, p[i].score,
                         p[i].needs, p[i].brief)]

\* the state a gate is given: the outputs of every phase up to its own
\* the agents that have run when gate g is entered
RanBefore(g) ==
    Range(Phase1Agents)
    \cup (IF g \in {"phase2", "phase3"} THEN Range(Phase2Agents) ELSE {})
    \cup (IF g = "phase3" THEN {"fact_checker", "stress_test", "completeness"}
          ELSE {})

\* the ledger of a run that has reached gate g: one entry per agent that ran
LedgerAtGate(g) == [a \in RanBefore(g) |-> {Run(a, 0)}]

StateAtGate(g) ==
    LET s0 == InitialState("Acme Corp", "none")
        s1 == WithOutputs(s0, Phase1Agents)
        s2 == [WithOutputs(s1, <<"bull_case", "bear_case", "valuation">>)
                  EXCEPT !["red_flags"] = FlagList(MaxFlags)]
        s3 == WithOutputs(s2, <<"fact_checker", "stress_test", "completeness">>)
    IN  CASE g = "phase1" -> [s1 EXCEPT !["current_phase"] = "phase2"]
          [] g = "phase2" -> [s2 EXCEPT !["current_phase"] = "phase3"]
          [] g = "phase3" -> [s3 EXCEPT !["current_phase"] = "phase3"]

\* what evaluate_phase may return: the unparsed text, the text run_agent
\* substitutes when its round budget is used up, or a JSON object
EvalObject == [kind |-> "object", doc |-> <<"{", "}">>]

EvalResults ==
    {Raw(<<"p">>), ParseJsonResponse(SentinelText), EvalObject}

\* eval_result.get("evaluations", []): `list` is what a JSON object holds
\* under the key (the empty list when it has no such key)
EvaluationsGetAny(er, list) == list

EvaluationsGet(er, list) == IF er.kind = "object" THEN list ELSE <<>>

\* run(): working_state = dict(state); evaluate_phase; the evaluation list;
\* then revise_agents filters, sorts and caps
GateEvaluate ==
    /\ gpc = "start"
    /\ \/ \E er \in EvalResults :
          \E n \in 0..(IF er.kind = "object" THEN MaxListLen(gate) ELSE 1) :
          \E p \in [1..n -> Profiles] :
            /\ eval_result' = er
            /\ evaluations' = EvaluationsGet(er, EvaluationList(gate, n, p))
            /\ to_revise' = Select(gate, evaluations')
            /\ idx' = 1
            /\ gpc' = "revising"
       \/ /\ gpc' = "raised"
          /\ UNCHANGED <<eval_result, evaluations, to_revise, idx>>
    /\ UNCHANGED <<gate, working_state, state_updates, calls, seen>>
    /\ UNCHANGED pipeVars
    /\ UNCHANGED stageVars
    /\ UNCHANGED usageVars
    /\ UNCHANGED ledgerVars
    /\ UNCHANGED adapterVars

\* how many times revise_agents has called this agent so far
CallsOf(agent) == Cardinality({i \in 1..Len(calls) : calls[i].agent = agent})

Call(ev, ok) ==
    [agent |-> ev.agent_name, brief |-> ev.revision_brief,
     score |-> ScoreOf(ev), ok |-> ok]

\* the except clause of the loop: the failure is logged and the loop goes on
\* with the entry after the i-th
NextAfterFailureAbort(i) == Len(to_revise) + 1

NextAfterFailure(i) == i + 1

\* working_state = dict(state): the update of the copy does not reach the
\* mapping run() was given
GivenStateAliased(s, r) == DictUpdate(s, r)

GivenState(s, r) == s

\* working_state.update(result): the next revision is given the copy with
\* this result merged in
WorkingAfterUntouched(working, r) == working

WorkingAfter(working, r) == DictUpdate(working, r)

\* one turn of the loop over to_revise
ReviseStep ==
    /\ gpc = "revising"
    /\ idx <= Len(to_revise)
    /\ LET ev == to_revise[idx]
           r  == AgentResult(ev.agent_name, CallsOf(ev.agent_name) + 1)
       IN  \/ /\ ev.revision_brief = ""
              /\ idx' = idx + 1
              /\ UNCHANGED <<working_state, state_updates, calls, seen>>
              /\ UNCHANGED <<uncollected, state>>
           \/ /\ ev.revision_brief # ""
              /\ AcceptsBrief(ev.agent_name)
              /\ working_state' = WorkingAfter(working_state, r)
              /\ state_updates' = DictUpdate(state_updates, r)
              /\ calls' = Append(calls, Call(ev, TRUE))
              /\ seen' = [seen EXCEPT ![ev.agent_name] = Produced(working_state)]
              /\ uncollected' = uncollected
                    \cup {Run(ev.agent_name, CallsOf(ev.agent_name) + 1)}
              /\ state' = GivenState(state, r)
              /\ idx' = idx + 1
           \/ /\ ev.revision_brief # ""
              /\ calls' = Append(calls, Call(ev, FALSE))
              /\ idx' = NextAfterFailure(idx)
              /\ UNCHANGED <<working_state, state_updates, seen>>
              /\ UNCHANGED <<uncollected, state>>
    /\ UNCHANGED <<gate, gpc, eval_result, evaluations, to_revise>>
    /\ UNCHANGED <<driver, pc, progress, status, result, outcome>>
    /\ UNCHANGED stageVars
    /\ UNCHANGED usageVars
    /\ UNCHANGED <<token_usage, job>>
    /\ UNCHANGED adapterVars

\* what run() of phase1_check and phase2_check returns, given the update
\* revise_agents built and the working copy it revised
GateReturnWorking(updates, working) == working

GateReturn(updates, working) == updates

\* revise_agents returns; phase1_check and phase2_check return its update
ReviseReturn ==
    /\ gpc = "revising"
    /\ idx > Len(to_revise)
    /\ IF gate = "phase3"
       THEN /\ gpc' = "synthesis"
            /\ UNCHANGED result
       ELSE /\ gpc' = "done"
            /\ result' = GateReturn(state_updates, working_state)
    /\ UNCHANGED <<gate, eval_result, evaluations, to_revise, idx, working_state,
                   state_updates, calls>>
    /\ UNCHANGED <<driver, pc, state, progress, status, outcome, seen>>
    /\ UNCHANGED stageVars
    /\ UNCHANGED usageVars
    /\ UNCHANGED ledgerVars
    /\ UNCHANGED adapterVars

\* phase3_check: the synthesis call, whose result is the briefing
GateSynthesis ==
    /\ gpc = "synthesis"
    /\ \/ /\ state_updates' = DictUpdate(state_updates,
                 "orchestrator_briefing" :> Out("orchestrator", 0))
          /\ result' = state_updates'
          /\ gpc' = "done"
       \/ /\ gpc' = "raised"
          /\ UNCHANGED <<state_updates, result>>
    /\ seen' = [seen EXCEPT !["orchestrator"] = Produced(working_state)]
    /\ UNCHANGED <<gate, eval_result, evaluations, to_revise, idx,
                   working_state, calls>>
    /\ UNCHANGED <<driver, pc, state, progress, status, outcome>>
    /\ UNCHANGED stageVars
    /\ UNCHANGED usageVars
    /\ UNCHANGED ledgerVars
    /\ UNCHANGED adapterVars

InitGate ==
    /\ gate \in Gates
    /\ gpc = "start"
    /\ state = StateAtGate(gate)
    /\ working_state = state
    /\ state_updates = EmptyDict
    /\ evaluations = <<>>
    /\ eval_result = NoResult
    /\ to_revise = <<>>
    /\ idx = 0
    /\ calls = <<>>
    /\ driver = "none"
    /\ pc = "gate"
    /\ progress = <<>>
    /\ status = "running"
    /\ result = EmptyDict
    /\ outcome = [a \in AllAgents |->
                     IF a \in RanBefore(gate) THEN "ok" ELSE "none"]
    /\ seen = [a \in AllAgents |-> {}]
    /\ futures = NoFutures
    /\ stage_acc = StageAcc("idle", <<>>)
    /\ tl = NoCounters
    /\ since = NoCounters
    /\ last_usage = NoUsage
    /\ PoolIdle
    /\ AdmissionIdle
    /\ token_usage = LedgerAtGate(gate)
    /\ job = [progress |-> progress, token_usage |-> token_usage]
    /\ uncollected = {}
    /\ AdapterIdle

NextGate ==
    \/ GateEvaluate
    \/ ReviseStep
    \/ ReviseReturn
    \/ GateSynthesis

SpecGate == InitGate /\ [][NextGate]_vars

----------------------------------------------------------------------------
(* Properties of the pipeline run (Spec) *)

\* the step order the specification gives for a run
ClaimedOrder ==
    <<"input_processor", "phase1_parallel", "phase1_aggregator", "phase1_check",
      "phase2_parallel", "phase2_aggregator", "phase2_check", "fact_checker",
      "stress_test", "completeness", "phase3_check", "final_report_agent">>

\* C1: in every run the completed steps are, in order and without a gap or
\* a repeat, the steps of the fixed chain input validation, phase-1 agents,
\* aggregate, phase-1 gate, phase-2 agents, aggregate, phase-2 gate, fact
\* checker, stress test, completeness, phase-3 gate with synthesis, final
\* report; a complete run has executed all of them.
C1_FixedOrder ==
    /\ Len(progress) <= Len(ClaimedOrder)
    /\ \A i \in 1..Len(progress) : progress[i] = ClaimedOrder[i]
    /\ status = "complete" => progress = ClaimedOrder

StageAgents(node) ==
    IF node = "phase1_parallel" THEN Range(Phase1Agents) ELSE Range(Phase2Agents)

\* the stage `node` has just returned `result`
StageReturned(node) ==
    /\ progress # <<>>
    /\ progress[Len(progress)] = node
    /\ pc = NextNode(driver, node)

ErrorsOf(u) == IF "errors" \in DOMAIN u THEN u["errors"] ELSE <<>>

\* agent a's output is in the stage's merged update u
C2_OutputIn(a, u) ==
    IF a = "red_flag"
    THEN /\ u["red_flags"] # <<>>
         /\ u["red_flags"][Len(u["red_flags"])].type = "full_report"
    ELSE /\ FieldOf(a) \in DOMAIN u
         /\ u[FieldOf(a)] = Out(a, 0)

\* agent b left only an error entry naming it in the merged update u
C2_OnlyError(b, u) ==
    /\ Cardinality({i \in 1..Len(ErrorsOf(u)) : ErrorsOf(u)[i].who = b}) = 1
    /\ b \notin u["__agent_usage__"]
    /\ IF b = "red_flag" THEN u["red_flags"] = <<>>
       ELSE FieldOf(b) \notin DOMAIN u

\* C2: when a parallel stage has returned, then for all agents A and B of
\* the stage with B having raised: if A succeeded its output is in the
\* merged update, B left exactly one error entry naming it and no output
\* field, and the stage returned normally (the run goes on).
C2_StageIsolation ==
    \A node \in {"phase1_parallel", "phase2_parallel"} :
        StageReturned(node) =>
            /\ status = "running"
            /\ \A a \in StageAgents(node), b \in StageAgents(node) :
                   outcome[b] = "raised" =>
                       /\ outcome[a] = "ok" => C2_OutputIn(a, result)
                       /\ C2_OnlyError(b, result)
            /\ \A i \in 1..Len(ErrorsOf(result)) :
                   outcome[ErrorsOf(result)[i].who] = "raised"

\* C2 witness: phase 1 returned with the first agent failed and the last
\* one's output merged, and phase 2 is about to start
C2_Witness ==
    /\ StageReturned("phase1_parallel")
    /\ outcome["financial_analyst"] = "raised"
    /\ outcome["tech_product"] = "ok"
    /\ "tech_report" \in DOMAIN result
    /\ "financial_report" \notin DOMAIN result

\* C10: a run in which the stress-test agent raised ends having completed
\* the completeness step and the final report, with an error entry that
\* names stress_test and with the stress_test field null.
C10_StressTestDegrades ==
    (outcome["stress_test"] = "raised" /\ pc = "end") =>
        /\ "completeness" \in Range(progress)
        /\ "final_report_agent" \in Range(progress)
        /\ \E i \in 1..Len(state["errors"]) : state["errors"][i].who = "stress_test"
        /\ state["stress_test"] = Null

----------------------------------------------------------------------------
(* Properties of a quality-gate run (SpecGate) *)

Positions == 1..Len(evaluations)

\* the evaluation entry is flagged, scored strictly below 0.65 and names an
\* agent of the gate's agent map
Flagged(e) ==
    /\ e.needs_revision
    /\ e.has_score
    /\ e.score < 65
    /\ e.agent_name \in GateAgentMap(gate)

FlaggedPositions == {i \in Positions : Flagged(evaluations[i])}

\* revise_agents has returned
Revised == gpc \in {"done", "synthesis"}

\* C3: revise_agents calls at most 3 run functions; every flagged entry with
\* a brief that scores strictly lower than a called one has been called too
\* (so the called ones are the lowest-scoring); and with at least 3 flagged
\* entries, all with briefs, exactly 3 are called.
C3_RevisionCap ==
    /\ Len(calls) <= 3
    /\ \A c \in 1..Len(calls) :
           Cardinality({i \in FlaggedPositions :
                           /\ evaluations[i].revision_brief # ""
                           /\ evaluations[i].score < calls[c].score})
             = Cardinality({d \in 1..Len(calls) : calls[d].score < calls[c].score})
    /\ ( /\ Revised
         /\ Cardinality(FlaggedPositions) >= 3
         /\ \A i \in FlaggedPositions : evaluations[i].revision_brief # "" )
       => Len(calls) = 3

\* C3 witness: five phase-1 agents below threshold, the first listed scoring
\* higher than the three that were re-invoked
C3_Witness ==
    /\ gate = "phase1"
    /\ Revised
    /\ Cardinality(FlaggedPositions) = 5
    /\ \A i \in Positions : evaluations[i].revision_brief # ""
    /\ evaluations[1].score = 50
    /\ evaluations[2].score = 50
    /\ Len(calls) = 3
    /\ \A c \in 1..3 : calls[c].score = 40

\* C4: every run function the gate calls belongs to an agent of the gate's
\* agent map that has an evaluation entry flagged needs_revision with a
\* score present and strictly below 0.65.
C4_RevisionFilter ==
    \A c \in 1..Len(calls) :
        /\ calls[c].agent \in GateAgentMap(gate)
        /\ \E i \in Positions :
              /\ evaluations[i].agent_name = calls[c].agent
              /\ evaluations[i].needs_revision
              /\ evaluations[i].has_score
              /\ evaluations[i].score < 65
              /\ evaluations[i].score = calls[c].score
              /\ evaluations[i].revision_brief = calls[c].brief

\* C4 witness: the phase-2 gate re-invoked bull_case only, although bear_case
\* was flagged at exactly 0.65, valuation was flagged without a score,
\* red_flag (not in the agent map) was flagged at 0.4, and a second entry
\* scored bull_case 0.4 without flagging it
C4_Witness ==
    /\ gate = "phase2"
    /\ Revised
    /\ Len(evaluations) = 5
    /\ Flagged(evaluations[1])
    /\ evaluations[2].needs_revision /\ evaluations[2].score = 65
    /\ evaluations[3].needs_revision /\ ~evaluations[3].has_score
    /\ evaluations[4].needs_revision /\ evaluations[4].score = 40
    /\ ~evaluations[5].needs_revision /\ evaluations[5].score = 40
    /\ Len(calls) = 1
    /\ calls[1].agent = "bull_case"

OkCallsOf(a) == {i \in 1..Len(calls) : calls[i].agent = a /\ calls[i].ok}

\* C5: no agent's run function runs more than once in one call of
\* revise_agents, whatever the evaluation list (a call that fails before the
\* function is entered is not counted).
C5_AtMostOncePerAgent ==
    \A a \in AllAgents : Cardinality(OkCallsOf(a)) <= 1

\* the step is a call of a run function that raised
FailedCallStep ==
    /\ Len(calls') = Len(calls) + 1
    /\ ~calls'[Len(calls')].ok

\* C6: a re-invocation that raises changes neither the working state nor
\* the update and the loop goes on with the next selected entry; an agent
\* whose re-invocation never succeeded keeps its pre-gate output in the
\* working state and has no field in the update; and when revise_agents has
\* returned, every selected entry with a brief has been called.
C6_RevisionFailure ==
    /\ [][FailedCallStep =>
            /\ working_state' = working_state
            /\ state_updates' = state_updates
            /\ gpc' = "revising"
            /\ idx' = idx + 1]_vars
    /\ [](\A a \in AllAgents :
            (CallsOf(a) > 0 /\ OkCallsOf(a) = {}) =>
                /\ working_state[FieldOf(a)] = state[FieldOf(a)]
                /\ FieldOf(a) \notin DOMAIN state_updates)
    /\ [](Revised =>
            Len(calls) = Cardinality({i \in 1..Len(to_revise) :
                                         to_revise[i].revision_brief # ""}))

\* C6 witness: the first re-invocation raised, a later one was still made
\* and succeeded, and the failed agent's field is not in the update
C6_Witness ==
    /\ Revised
    /\ Len(calls) = 3
    /\ ~calls[1].ok
    /\ calls[3].ok
    /\ FieldOf(calls[1].agent) \notin DOMAIN state_updates
    /\ working_state[FieldOf(calls[1].agent)] = state[FieldOf(calls[1].agent)]

\* C7: once an agent's latest re-invocation has succeeded, its field in the
\* working state (and in the update) is exactly the result of that re-run,
\* and no longer the value the gate was given.
C7_Overwrite ==
    \A a \in AllAgents :
        (CallsOf(a) > 0 /\ calls[CHOOSE i \in 1..Len(calls) :
                                    /\ calls[i].agent = a
                                    /\ \A j \in (i + 1)..Len(calls) :
                                          calls[j].agent # a].ok) =>
            /\ working_state[FieldOf(a)] = Out(a, Cardinality(OkCallsOf(a)) +
                   Cardinality({i \in 1..Len(calls) :
                                   calls[i].agent = a /\ ~calls[i].ok}))
            /\ working_state[FieldOf(a)] # state[FieldOf(a)]
            /\ state_updates[FieldOf(a)] = working_state[FieldOf(a)]

\* C7 witness: the phase-1 gate revised management_team and the working state
\* holds the re-run's result in place of the first report
C7_Witness ==
    /\ gate = "phase1"
    /\ Revised
    /\ Len(calls) = 1
    /\ calls[1].agent = "management_team"
    /\ calls[1].ok
    /\ state["management_report"] = Out("management_team", 0)
    /\ working_state["management_report"] = Out("management_team", 1)

\* fields of the agents with a successful re-invocation
RevisedFields == {FieldOf(calls[i].agent) : i \in {j \in 1..Len(calls) : calls[j].ok}}

\* revise_agents has just returned its update (the phase-3 gate goes on to
\* add the briefing to it)
RevisionReturned == gpc = "synthesis" \/ (gpc = "done" /\ gate # "phase3")

\* C8: the update revise_agents returns, which is also the update the
\* phase-1 and phase-2 gates return, has exactly the fields of the agents
\* whose re-run succeeded, each with the working state's value; it is empty
\* when no evaluation entry is flagged below the threshold.
C8_ReturnedFields ==
    /\ RevisionReturned =>
          /\ DOMAIN state_updates = RevisedFields
          /\ \A f \in RevisedFields : state_updates[f] = working_state[f]
          /\ FlaggedPositions = {} => state_updates = EmptyDict
    /\ (gpc = "done" /\ gate # "phase3") =>
          /\ DOMAIN result = RevisedFields
          /\ \A f \in RevisedFields : result[f] = working_state[f]
          /\ FlaggedPositions = {} => result = EmptyDict

\* C8 witness: the phase-2 gate returned bear_case alone, after the re-run of
\* another selected agent failed
C8_Witness ==
    /\ gate = "phase2"
    /\ gpc = "done"
    /\ Len(calls) = 2
    /\ ~calls[1].ok
    /\ calls[2].ok
    /\ DOMAIN result = {"bear_case"}

\* the evaluation of the end-to-end scenario: financial_analyst 0.4, flagged,
\* with a brief; the four other phase-1 agents 0.7, not flagged
Scenario9 ==
    /\ gate = "phase1"
    /\ state["company_name"] = "Acme Corp"
    /\ state["company_url"] = "none"
    /\ Len(evaluations) = 5
    /\ evaluations[1] = Eval("financial_analyst", TRUE, 40, TRUE, "fix the gaps")
    /\ \A i \in 2..5 : /\ evaluations[i].score = 70
                       /\ ~evaluations[i].needs_revision

\* C9: in the scenario the phase-1 gate calls financial_analyst's run function
\* once, with the brief, and no other; it returns the revised financial
\* report, which is what phase 2 then reads, and no other field.
C9_ScenarioRevisesFinancial ==
    (Scenario9 /\ gpc = "done") =>
        /\ Len(calls) = 1
        /\ calls[1].agent = "financial_analyst"
        /\ calls[1].brief # ""
        /\ DOMAIN result = {"financial_report"}
        /\ result["financial_report"] = Out("financial_analyst", 1)
        /\ \A a \in Range(Phase1Agents) \ {"financial_analyst"} :
               working_state[FieldOf(a)] = state[FieldOf(a)]

----------------------------------------------------------------------------
(* Input validation (Spec) *)

\* C11: a run whose company name is missing or blank invokes no agent, and a
\* submission with a company name is never kept from starting (whether or not
\* it has a URL).
C11_RejectsOnlyBlankCompany ==
    /\ Strip(state["company_name"]) = "" =>
           \A a \in AllAgents : outcome[a] = "none"
    /\ (Strip(state["company_name"]) # "" /\ pc # "submit") =>
           status # "not_started"

----------------------------------------------------------------------------
(* A pipeline run or a gate run: the gates are not steps of either driver,
   so the two kinds of run have no state in common *)

InitAll == Init \/ InitGate

NextAll == Next \/ NextGate

SpecAll == InitAll /\ [][NextAll]_vars

----------------------------------------------------------------------------
(* The phase marker (SpecAll) *)

PhaseOrder ==
    <<"init", "phase1", "phase1_done", "phase2", "phase2_done", "phase3",
      "complete">>

PhaseRank(p) == CHOOSE i \in 1..Len(PhaseOrder) : PhaseOrder[i] = p

\* the marker is one of the seven values; a gate's revisions leave it alone
\* in the working state and out of the returned update; it is "complete"
\* only once the final report agent has run
PhaseMarkerOk ==
    /\ state["current_phase"] \in Range(PhaseOrder)
    /\ gate # "none" =>
           /\ working_state["current_phase"] = state["current_phase"]
           /\ "current_phase" \notin DOMAIN state_updates
           /\ "current_phase" \notin DOMAIN result
    /\ state["current_phase"] = "complete" =>
           /\ outcome["final_report_agent"] = "ok"
           /\ progress[Len(progress)] = "final_report_agent"

\* C12: the phase marker only takes the values init, phase1, phase1_done,
\* phase2, phase2_done, phase3, complete; no step moves it to an earlier
\* value; a quality gate's revisions do not change it; and it is complete
\* only after the final report agent has run.
C12_PhaseMarkerForward ==
    /\ []PhaseMarkerOk
    /\ [][PhaseRank(state'["current_phase"]) >= PhaseRank(state["current_phase"])]_vars

\* C12 witness: a run that went through every marker value and is complete
C12_Witness ==
    /\ status = "complete"
    /\ state["current_phase"] = "complete"
    /\ Len(progress) >= 9

----------------------------------------------------------------------------
(* The sequential phase-3 agents (Spec) *)

\* step b, when completed, directly follows the completed step a
DirectlyAfter(a, b) ==
    \A i \in 1..Len(progress) :
        progress[i] = b => (i > 1 /\ progress[i - 1] = a)

\* agent b was given, and reads, the output that agent a produced
ReadsOutputOf(b, a) ==
    /\ outcome[a] = "ok"
    /\ FieldOf(a) \in seen[b] \cap Reads(b)
    /\ state[FieldOf(a)] = Out(a, 0)

\* C13: the stress test is started only after the fact checker's output is
\* merged into the state and reads it; completeness is started only after
\* both outputs are merged and reads both; the three steps complete in the
\* order fact checker, stress test, completeness.
C13_Phase3Sequential ==
    /\ outcome["stress_test"] # "none" => ReadsOutputOf("stress_test", "fact_checker")
    /\ outcome["completeness"] # "none" =>
           /\ ReadsOutputOf("completeness", "fact_checker")
           /\ ReadsOutputOf("completeness", "stress_test")
    /\ DirectlyAfter("fact_checker", "stress_test")
    /\ DirectlyAfter("stress_test", "completeness")

\* C13 witness: completeness has run after the two others
C13_Witness ==
    /\ outcome["completeness"] = "ok"
    /\ progress[Len(progress)] = "completeness"
    /\ {"verification", "stress_test"} \subseteq seen["completeness"]

----------------------------------------------------------------------------
(* Concurrency of a parallel stage (SpecStage) *)

\* the agents of the stage that is running or has just returned
StageOf ==
    IF "phase2_parallel" \in Range(progress) \/ pc = "phase2_parallel"
    THEN Range(Phase2Agents) ELSE Range(Phase1Agents)

\* the worker of agent a has entered the agent's run()
Started(a) == futures[a].st \in {"running", "ok", "raised", "collected"}

\* the worker of agent a has not finished yet
Unfinished(a) == futures[a].st \in {"idle", "queued", "running"}

\* C14: whatever the interleaving of the worker threads and the collecting
\* loop, the state an agent of a parallel stage is given holds no output of
\* an agent of the same stage: it is the state the stage was entered with.
C14_SnapshotIsolation ==
    \A a \in DOMAIN futures :
        Started(a) =>
            /\ seen[a] \cap {FieldOf(b) : b \in StageOf} = {}
            /\ seen[a] = IF "phase2_parallel" \in Range(progress) \/ pc = "phase2_parallel"
                         THEN Phase1Fields ELSE {}

\* C14 witness: a worker entered its agent after a sibling's output had
\* already been merged by the collecting loop
C14_Witness ==
    /\ pc = "phase2_parallel"
    /\ "bull_case" \in DOMAIN stage_acc.merged
    /\ futures["bull_case"].st = "collected"
    /\ futures["bear_case"].st = "queued"
    /\ futures["red_flag"].st = "running"
    /\ seen["red_flag"] = Phase1Fields

\* C15: the stage has returned (the controller is at the next step) only
\* when every task of the stage has finished and been taken; and while a
\* task is unfinished no step changes the shared state, the completed-step
\* list or the controller's position.
C15_Barrier ==
    /\ [](pc \notin Stages => \A a \in DOMAIN futures : futures[a].st = "collected")
    /\ [][(\E a \in DOMAIN futures : Unfinished(a)) =>
             (state' = state /\ pc' = pc /\ progress' = progress
              /\ result' = result)]_vars

\* C15 witness: the stage has returned with one agent failed, and the next
\* step is about to start
C15_Witness ==
    /\ pc = "phase1_aggregator"
    /\ outcome["legal_risk"] = "raised"
    /\ outcome["tech_product"] = "ok"
    /\ "tech_report" \in Produced(state)
    /\ \A a \in DOMAIN futures : futures[a].st = "collected"

----------------------------------------------------------------------------
(* The flag list (SpecAll) *)

IsPrefix(p, q) == Len(p) <= Len(q) /\ SubSeq(q, 1, Len(p)) = p

\* the phase-2 gate leaves the flag list of the state it was given alone
GateKeepsFlags ==
    gate = "phase2" =>
        /\ working_state["red_flags"] = state["red_flags"]
        /\ "red_flags" \notin DOMAIN state_updates
        /\ "red_flags" \notin DOMAIN result

\* C16: across phase 2 the flag list only grows and keeps every record it
\* had, unchanged and in place: the list after phase2_parallel starts with
\* the list before it, whether the red-flag agent returned flags or failed,
\* and the phase-2 gate neither changes the list nor returns one.
C16_FlagsMonotonic ==
    /\ [][pc = "phase2_parallel" =>
             IsPrefix(state["red_flags"], state'["red_flags"])]_vars
    /\ []GateKeepsFlags

\* C16 witness: the phase-2 gate has re-run an agent and returned, with the
\* flag records of phase2_parallel in the state it was given
C16_Witness ==
    /\ gate = "phase2"
    /\ gpc = "done"
    /\ \E i \in 1..Len(calls) : calls[i].ok
    /\ Len(working_state["red_flags"]) = MaxFlags

----------------------------------------------------------------------------
(* Agents a gate cannot re-run (SpecGate) *)

\* C17: no gate ever calls the run function of the red-flag agent or of the
\* completeness agent, neither of which is in an agent map, even when its
\* evaluation is flagged with a score below 0.65 and a brief; and a gate's
\* working state and returned update never hold a flag list that differs
\* from the one it was given.
C17_ExcludedNeverRerun ==
    /\ \A i \in 1..Len(calls) : calls[i].agent \notin {"red_flag", "completeness"}
    /\ \A i \in 1..Len(to_revise) :
           to_revise[i].agent_name \notin {"red_flag", "completeness"}
    /\ working_state["red_flags"] = state["red_flags"]
    /\ "red_flags" \in DOMAIN result => result["red_flags"] = state["red_flags"]

\* C17 witness: the phase-2 gate returned after the evaluation flagged the
\* red-flag agent at 0.4 with a brief, having re-run another agent
C17_Witness ==
    /\ gate = "phase2"
    /\ gpc = "done"
    /\ Len(evaluations) >= 4
    /\ evaluations[4] = Eval("red_flag", TRUE, 40, TRUE, "fix the gaps")
    /\ \E i \in 1..Len(calls) : calls[i].agent = "bear_case" /\ calls[i].ok

----------------------------------------------------------------------------
(* The error list (Spec) *)

\* the parallel stage agent a ran in has returned
StageOfAgentReturned(a) ==
    IF a \in Range(Phase1Agents) THEN "phase1_parallel" \in Range(progress)
    ELSE "phase2_parallel" \in Range(progress)

\* C18: every error a step recorded is still in the shared state's error
\* list after every later step: once a parallel stage has returned, each of
\* its agents that failed has an entry naming it in the state's error list,
\* in every later state of the run; likewise the input error of a blank
\* company name.
C18_ErrorsAccumulate ==
    /\ \A a \in Range(Phase1Agents) \cup Range(Phase2Agents) :
           (outcome[a] = "raised" /\ StageOfAgentReturned(a)) =>
               \E i \in 1..Len(state["errors"]) : state["errors"][i].who = a
    /\ (Strip(state["company_name"]) = "" /\ progress # <<>>) =>
           \E i \in 1..Len(state["errors"]) :
               state["errors"][i].who = "company_name"

----------------------------------------------------------------------------
(* The terminal gate and its briefing (SpecAll) *)

\* C19: phase3_check.run reaches its synthesis only after the revision loop
\* has ended, the synthesis reads the working state (every phase-3 output,
\* with the successful revisions), and the update it returns holds the
\* briefing whether or not an agent was revised; and in a run the briefing
\* is in the state before the final report agent starts.
C19_TerminalGateBriefing ==
    /\ (gate = "phase3" /\ gpc \in {"synthesis", "done"}) => idx > Len(to_revise)
    /\ (gate = "phase3" /\ gpc = "done") =>
           /\ "orchestrator_briefing" \in DOMAIN result
           /\ {"verification", "stress_test", "completeness"} \subseteq seen["orchestrator"]
           /\ \A f \in DOMAIN state_updates \ {"orchestrator_briefing"} :
                  result[f] = working_state[f]
    /\ outcome["final_report_agent"] # "none" =>
           "orchestrator_briefing" \in seen["final_report_agent"]

----------------------------------------------------------------------------
(* Usage accumulation (SpecUsage) *)

RECURSIVE SumUsage(_)
SumUsage(log) ==
    IF log = <<>> THEN [input_tokens |-> 0, output_tokens |-> 0]
    ELSE LET r == SumUsage(Tail(log))
         IN  [input_tokens  |-> Head(log)[1] + r.input_tokens,
              output_tokens |-> Head(log)[2] + r.output_tokens]

\* this step is a get_and_reset_usage call on thread t
ResetOn(t) ==
    /\ last_usage'.thread = t
    /\ since'[t] = <<>>
    /\ \A u \in Threads \ {t} : since'[u] = since[u] /\ tl'[u] = tl[u]

\* C20: a thread's counters are the sums of the input and of the output
\* token counts of its model invocations since its last reset;
\* get_and_reset_usage returns exactly those sums and leaves both counters at
\* zero, so that a reset straight after it returns zero for both counts.
C20_UsageAdditive ==
    /\ [](\A t \in Threads : tl[t] = SumUsage(since[t]))
    /\ [][\A t \in Threads : ResetOn(t) =>
             /\ last_usage'.input_tokens = SumUsage(since[t]).input_tokens
             /\ last_usage'.output_tokens = SumUsage(since[t]).output_tokens
             /\ tl'[t] = ZeroUsage]_vars
    /\ [](last_usage.thread \in Threads => tl[last_usage.thread] = ZeroUsage)

\* C20 witness: a reset returned the totals of two invocations in sequence
C20_Witness ==
    /\ last_usage = [thread |-> "main", input_tokens |-> 3, output_tokens |-> 2]
    /\ tl["main"] = ZeroUsage
    /\ since["worker"] # <<>>

----------------------------------------------------------------------------
(* The usage ledger (SpecAll) *)

\* no entry of the ledger disappears or loses a run it counted
LedgerGrows ==
    \A a \in DOMAIN token_usage :
        /\ a \in DOMAIN token_usage'
        /\ token_usage[a] \subseteq token_usage'[a]

\* the tokens of a re-run made by revise_agents in this step are counted in
\* the entry of the agent that was re-run
RevisionCounted ==
    gpc = "revising" =>
        \A r \in uncollected' \ uncollected :
            /\ r[1] \in DOMAIN token_usage'
            /\ r \in token_usage'[r[1]]

\* C21: in the controller's usage ledger the totals recorded under an agent
\* name never decrease during a run, and the usage of a revision re-run is
\* added to the agent's earlier usage, neither replacing it nor being dropped.
C21_LedgerMonotonic == [][LedgerGrows /\ RevisionCounted]_vars

\* the first half alone: the entries of the ledger never decrease
EntriesNeverDecrease == [][LedgerGrows]_vars

----------------------------------------------------------------------------
(* The tool executor (SpecTool) *)

\* the error shape: error "tool_unavailable", the tool's name, a message
\* (str(exc), which may be empty) and a non-empty action that names web_search
IsToolError(r, tool_name) ==
    /\ r.error = "tool_unavailable"
    /\ r.tool = tool_name
    /\ "message" \in DOMAIN r
    /\ r.action # <<>>
    /\ \E i \in 1..Len(r.action) : r.action[i] = "web_search"

----------------------------------------------------------------------------
(* Retry on rate limit (SpecRetry) *)

\* the provider calls made so far, all but the last
EarlierCalls == 1..(Len(created) - 1)

RetryBounded ==
    /\ Len(created) <= max_retries + 1
    /\ \A i \in EarlierCalls : created[i] = "RateLimitError"
    /\ Len(slept) = attempt
    /\ retry_out = "running" => Len(created) = attempt
    /\ retry_out = "returned" => created[Len(created)] = "ok"
    /\ retry_out \notin {"running", "returned"} =>
          /\ created[Len(created)] = retry_out
          /\ retry_out = "RateLimitError" => Len(created) = max_retries + 1

\* C25: _create_with_retry calls the provider at most max_retries + 1 times
\* and never loops forever: it returns the first successful response, retries
\* only on a rate-limit error (any other exception propagates at once), and
\* when all max_retries attempts are throttled it makes exactly one more
\* attempt, whose failure is raised to the caller.
C25_RetryTerminates == []RetryBounded /\ <>(retry_out # "running")

\* every attempt of the loop was throttled and the one further attempt failed
C25_Witness ==
    /\ max_retries = MaxRetries
    /\ Len(created) = MaxRetries + 1
    /\ retry_out = "RateLimitError"
    /\ slept[Len(slept)] = 60

----------------------------------------------------------------------------
(* Structured-result extraction (SpecParse) *)

\* no span of the text is a JSON object
NoObjectIn(t) ==
    \A i \in 1..Len(t) : \A j \in i..Len(t) :
        ~(t[i] = "{" /\ IsJson(SubSeq(t, i, j)))

\* plain prose, or prose and braces in which no span is a JSON object
\* (unbalanced braces, a brace span that is not valid JSON)
ProseAndBraces(t) ==
    /\ \A i \in 1..Len(t) : t[i] \in {"p", "{", "}", "k:"}
    /\ NoObjectIn(t)

\* a code fence that is opened and never closed, and no JSON object
UnclosedFence(t) ==
    /\ Cardinality({i \in 1..Len(t) : t[i] \in Fences}) = 1
    /\ NoObjectIn(t)

\* the fallback for texts without fences
RawForProseAndBraces ==
    (parsed # NoResult /\ ProseAndBraces(final_text)) => parsed = Raw(final_text)

\* C26: for every final text in which no valid structured object can be
\* found (plain prose, unbalanced braces, a brace span that is not valid JSON,
\* a code fence that is opened but never closed) _parse_json_response returns
\* {"raw": the original text} and does not raise.
C26_RawFallback ==
    (parsed # NoResult /\ (ProseAndBraces(final_text) \/ UnclosedFence(final_text)))
        => parsed = Raw(final_text)

\* C27: every per-agent output slot is at every point either null or a
\* mapping: whatever final text the model returns, valid JSON that is an
\* array, a string or a number included, an agent run never stores a
\* non-object in its slot, and a revision never replaces an object by a
\* non-object.
C27_SlotIsObject == slot = NoResult \/ slot.kind \in {"object", "raw"}

\* the three presentations of one object: inside a fence with the json tag,
\* and with prose before it, after it, or both
InFence(o) == <<"fence_json">> \o o \o <<"fence">>

InProse(o) == {<<"p">> \o o, o \o <<"p">>, <<"p">> \o o \o <<"p">>}

\* a bare object and the same object in a tagged fence parse alike
SameInFence ==
    (parsed # NoResult /\ IsJson(final_text) /\ final_text[1] = "{")
        => ParseJsonResponse(InFence(final_text)) = parsed

\* C28: feeding _parse_json_response a bare JSON object, the same object
\* inside a fenced code block with a language tag, and the same object
\* preceded and/or followed by prose yields the identical parsed object.
C28_SameObject ==
    (parsed # NoResult /\ IsJson(final_text) /\ final_text[1] = "{")
        => /\ parsed = Loaded(final_text)
           /\ ParseJsonResponse(InFence(final_text)) = parsed
           /\ \A w \in InProse(final_text) : ParseJsonResponse(w) = parsed

----------------------------------------------------------------------------
(* The agent loop (SpecAgent) *)

\* the tool requests of the i-th message of the transcript
RequestsOf(i) ==
    IF messages[i].role = "assistant"
    THEN BlocksOf(messages[i].content, "tool_use")
    ELSE <<>>

\* obs is the observation of request tb: a tool_result with the request's
\* id whose content is a string, an error payload if the tool does not exist
Observes(obs, tb) ==
    /\ obs.type = "tool_result"
    /\ obs.tool_use_id = tb.id
    /\ obs.content.kind = "str"
    /\ ToolModule(tb.name) = "none" => obs.content.error # "none"

\* list `obs` answers the first Len(obs) requests of `req`, one for one and
\* in order
AnswersPrefix(obs, req) ==
    /\ Len(obs) <= Len(req)
    /\ \A k \in 1..Len(obs) : Observes(obs[k], req[k])

\* C23: in run_agent, for every round in which the model requests tool
\* invocations, exactly one observation per requested invocation, carrying
\* that request's id and in request order, is appended to the transcript
\* before the next model call; a failing tool call yields an error payload as
\* its observation and is never raised as an exception to the agent.
C23_Observations ==
    /\ \A i \in 1..Len(messages) :
          RequestsOf(i) # <<>> =>
             IF i < Len(messages)
             THEN /\ messages[i + 1].role = "user"
                  /\ Len(messages[i + 1].content) = Len(RequestsOf(i))
                  /\ AnswersPrefix(messages[i + 1].content, RequestsOf(i))
             ELSE /\ apc = "tools"
                  /\ AnswersPrefix(tool_results, RequestsOf(i))
    /\ agent_out.kind \notin {"raise", "Exception"}

\* a round with two requests, the first of which failed, has been answered
\* and the loop is about to call the model again
C23_Witness ==
    /\ apc = "call"
    /\ Len(messages) = 3
    /\ Len(RequestsOf(2)) = 2
    /\ messages[3].content[1].content.error = "tool_unavailable"
    /\ messages[3].content[1].tool_use_id = RequestsOf(2)[1].id
    /\ messages[3].content[2].tool_use_id = RequestsOf(2)[2].id

\* the assistant messages that carry tool requests
ToolRounds == {i \in 1..Len(messages) : RequestsOf(i) # <<>>}

RoundBudget ==
    /\ rounds <= max_iterations
    /\ Cardinality({i \in 1..Len(messages) : messages[i].role = "assistant"})
          <= rounds
    /\ \A i \in 1..Len(messages) :
          messages[i].role = "assistant" /\ RequestsOf(i) = <<>> =>
             /\ i = Len(messages)
             /\ apc \in {"parse", "returned", "raised"}
    /\ Cardinality(ToolRounds) = max_iterations /\ apc \notin {"call", "tools"} =>
          /\ final_text = SentinelText
          /\ apc = "returned" => agent_out = Raw(SentinelText)
          /\ apc # "raised"

\* C24: run_agent makes at most max_iterations model round-trips and always
\* terminates; it stops at the first round with no tool request, and if the
\* model requests tools in every one of the max_iterations rounds it returns
\* (does not raise) the sentinel result
\* {"raw": "Agent exceeded maximum iterations without completing."}.
C24_RoundBudget == []RoundBudget /\ <>(apc \in {"returned", "raised"})

\* the model asked for tools in every round of the largest budget and the
\* sentinel was returned
C24_Witness ==
    /\ max_iterations = MaxIterations
    /\ Cardinality(ToolRounds) = MaxIterations
    /\ apc = "returned"
    /\ agent_out = Raw(SentinelText)

----------------------------------------------------------------------------
(* The progress log (Spec) *)

\* the step list of _run_pipeline
AppStepList ==
    <<"input_processor", "phase1_parallel", "phase1_aggregator",
      "phase2_parallel", "phase2_aggregator", "fact_checker", "stress_test",
      "completeness", "final_report_agent">>

\* the log is a prefix of the step list and the job record holds it
ProgressRecorded ==
    driver = "app" =>
        /\ IsPrefix(progress, AppStepList)
        /\ job.progress = progress

\* a step leaves the log alone or extends it by the step that completed
ProgressExtended ==
    driver = "app" =>
        \/ progress' = progress
        \/ /\ pc \in Range(AppStepList)
           /\ progress' = Append(progress, pc)
           /\ pc' # "end"

\* C29: the progress log kept by the controller only grows: after each step
\* it equals the previous log extended by exactly the name of the step that
\* just completed, so at every point it is a prefix of the fixed step list,
\* and it is written to the job record after every step.
C29_ProgressGrows == []ProgressRecorded /\ [][ProgressExtended]_vars

\* an app run has completed every step and the job record lists them all
C29_Witness ==
    /\ driver = "app"
    /\ status = "complete"
    /\ progress = AppStepList
    /\ job.progress = AppStepList

----------------------------------------------------------------------------
(* Order of revision (SpecGate) *)

\* how many flagged entries come before the i-th: those scored lower, and
\* those scored the same that are listed earlier
Rank(i) ==
    Cardinality({j \in FlaggedPositions :
        \/ evaluations[j].score < evaluations[i].score
        \/ /\ evaluations[j].score = evaluations[i].score
           /\ j < i})

\* the entries inside the cap of 3
InsideCap == {i \in FlaggedPositions : Rank(i) < REVISION_CAP}

\* the entries of a list that carry a brief, in order: the ones whose agent
\* is called
RECURSIVE WithBrief(_)
WithBrief(evs) ==
    IF evs = <<>> THEN <<>>
    ELSE IF Head(evs).revision_brief # ""
         THEN <<Head(evs)>> \o WithBrief(Tail(evs))
         ELSE WithBrief(Tail(evs))

\* the entries the loop has dealt with so far
Handled ==
    SubSeq(to_revise, 1, IF idx - 1 < Len(to_revise) THEN idx - 1
                         ELSE Len(to_revise))

\* C30: revise_agents re-invokes the selected agents one at a time in
\* non-decreasing score order (worst first); among agents with equal score the
\* one listed earlier in the evaluation list comes first, both for deciding
\* who falls inside the cap of 3 and for the order of execution.
C30_WorstFirst ==
    gpc \in {"revising", "done", "synthesis"} =>
        /\ Len(to_revise) = Cardinality(InsideCap)
        /\ \A i \in InsideCap : to_revise[Rank(i) + 1] = evaluations[i]
        /\ Len(calls) = Len(WithBrief(Handled))
        /\ \A c \in 1..Len(calls) :
              /\ calls[c].agent = WithBrief(Handled)[c].agent_name
              /\ calls[c].score = WithBrief(Handled)[c].score
              /\ c > 1 => calls[c - 1].score <= calls[c].score

\* five phase-1 entries flagged with the same score: the first three listed
\* were re-invoked, in the order of the list
C30_Witness ==
    /\ gate = "phase1"
    /\ Revised
    /\ Cardinality(FlaggedPositions) = 5
    /\ \A i \in Positions :
          evaluations[i].score = 40 /\ evaluations[i].revision_brief # ""
    /\ Len(calls) = 3
    /\ \A c \in 1..3 : calls[c].agent = evaluations[c].agent_name

----------------------------------------------------------------------------
(* What a revision is given (SpecGate) *)

\* the calls among the first n of the log that succeeded and fill field f
SucceededFor(f, n) ==
    {c \in 1..n : calls[c].ok /\ FieldOf(calls[c].agent) = f}

\* the output the c-th call of the log returned
OutputOfCall(c) ==
    Out(calls[c].agent,
        Cardinality({d \in 1..c : calls[d].agent = calls[c].agent}))

LastOf(S) == CHOOSE c \in S : \A d \in S : d <= c

\* the state in which the outputs of the revisions that succeeded among the
\* first n calls are overwritten and every other field has its pre-gate value
OverwrittenBy(n) ==
    [f \in DOMAIN state |->
        IF SucceededFor(f, n) = {} THEN state[f]
        ELSE OutputOfCall(LastOf(SucceededFor(f, n)))]

\* C31: each revision run receives the gate's working state in which the
\* outputs of all revisions that succeeded earlier in the same pass are already
\* overwritten and every other field still has its pre-gate value; a revision
\* never reads the output of a revision that runs later in the pass.
C31_RevisionInput ==
    [][Len(calls') > Len(calls) => working_state = OverwrittenBy(Len(calls))]_vars

\* the phase-3 gate re-ran the fact checker twice: the second run was given
\* the first revision's verification in place of the pre-gate one
C31_Witness ==
    /\ gate = "phase3"
    /\ Len(calls) >= 2
    /\ calls[1].agent = "fact_checker" /\ calls[1].ok
    /\ calls[2].agent = "fact_checker" /\ calls[2].ok
    /\ state["verification"] = Out("fact_checker", 0)
    /\ working_state["verification"] = Out("fact_checker", 2)
    /\ working_state["stress_test"] = state["stress_test"]

----------------------------------------------------------------------------
(* Entries without a brief (SpecGate) *)

\* the entries inside the cap that carry a brief
BriefedInsideCap == {i \in InsideCap : evaluations[i].revision_brief # ""}

\* the eligible entries that carry a brief
BriefedFlagged == {i \in FlaggedPositions : evaluations[i].revision_brief # ""}

\* C32: in revise_agents an agent that is among the (up to) 3 worst eligible
\* agents but whose evaluation carries no brief or an empty brief is not
\* re-invoked, and its place is not handed to the next-worst eligible agent:
\* fewer than 3 agents are re-invoked even when more than 3 are eligible and
\* have briefs.
C32_NoSubstitute ==
    Revised =>
        /\ Len(calls) = Cardinality(BriefedInsideCap)
        /\ \A c \in 1..Len(calls) : \E i \in BriefedInsideCap :
              /\ calls[c].agent = evaluations[i].agent_name
              /\ calls[c].score = evaluations[i].score
              /\ calls[c].brief = evaluations[i].revision_brief
        /\ (InsideCap # BriefedInsideCap) => Len(calls) < REVISION_CAP

\* five phase-1 entries are eligible, the worst one has an empty brief and the
\* other four have briefs: only two agents were re-invoked
C32_Witness ==
    /\ gate = "phase1"
    /\ Revised
    /\ Cardinality(FlaggedPositions) = 5
    /\ Cardinality(BriefedFlagged) = 4
    /\ \E i \in InsideCap : evaluations[i].revision_brief = ""
    /\ Len(calls) = 2

----------------------------------------------------------------------------
(* The mapping a gate is given (SpecGate) *)

\* one step of a gate run: the given mapping keeps every field, and what the
\* update holds is in the working copy and not in the given mapping
GateLeavesState ==
    gate \in Gates =>
        /\ state' = state
        /\ \A f \in DOMAIN state_updates' \ {"orchestrator_briefing"} :
              /\ working_state'[f] = state_updates'[f]
              /\ state'[f] # state_updates'[f]

\* C33: a quality gate run (phase1_check.run, phase2_check.run,
\* phase3_check.run) leaves every top-level field of the state mapping it is
\* given unchanged: revisions are applied to a private working copy and reach
\* the shared state only through the returned update.
C33_GivenStateUntouched == [][GateLeavesState]_vars

\* a gate has returned after a revision that succeeded: the revised output is
\* in the working copy and in the returned update, not in the given mapping
C33_Witness ==
    /\ gate \in Gates
    /\ gpc = "done"
    /\ \E c \in 1..Len(calls) :
          /\ calls[c].ok
          /\ FieldOf(calls[c].agent) \in DOMAIN result
          /\ working_state[FieldOf(calls[c].agent)] =
                 result[FieldOf(calls[c].agent)]
          /\ state[FieldOf(calls[c].agent)] = Out(calls[c].agent, 0)
    /\ state = StateAtGate(gate)

----------------------------------------------------------------------------
(* An evaluation pass without an evaluation list (SpecGate) *)

\* the evaluation pass has returned and gave no structured evaluation list
NoEvaluationList ==
    /\ gate \in Gates
    /\ gpc \in {"revising", "done", "synthesis"}
    /\ \/ eval_result.kind = "raw"
       \/ evaluations = <<>>

\* C34: when the evaluation pass yields no structured evaluation list (the
\* unparsed raw result, the round-budget sentinel, or an empty list), the gate
\* re-invokes no agent, and the phase-1 and phase-2 gates return the empty
\* update so the next phase proceeds with the original outputs.
C34_NothingToRevise ==
    NoEvaluationList =>
        /\ to_revise = <<>>
        /\ calls = <<>>
        /\ working_state = state
        /\ (gpc = "done" /\ gate # "phase3") => result = EmptyDict

\* the phase-1 gate has returned after an evaluation pass that used up its
\* round budget: no call was made and the update is empty
C34_Witness ==
    /\ gate = "phase1"
    /\ gpc = "done"
    /\ eval_result = Raw(SentinelText)
    /\ calls = <<>>
    /\ result = EmptyDict

----------------------------------------------------------------------------
(* Usage per agent of a parallel stage (SpecPool) *)

\* C35: the usage a parallel stage reports for an agent equals the tokens
\* consumed by that agent's own invocation only, under every interleaving and
\* every assignment of tasks to pool threads: tokens consumed by another agent
\* of the stage (one running concurrently, or one that ran earlier on the same
\* pool thread and raised) are never counted under this agent's name.
C35_OwnUsageOnly ==
    \A a \in DOMAIN agent_usage : agent_usage[a] = OwnTokens(a)

\* agents running at the same time never see each other's tokens: as long as
\* no agent of the stage has raised, every usage taken is the agent's own
ConcurrentUsageApart ==
    (\A b \in DOMAIN futures : futures[b].st # "raised"
                               /\ (futures[b].st = "collected" =>
                                      b \in DOMAIN agent_usage))
        => \A a \in DOMAIN agent_usage : agent_usage[a] = OwnTokens(a)

----------------------------------------------------------------------------
(* The waits between retries (SpecRetry) *)

\* the wait the specification gives for retry number k
ClaimedWait(k) ==
    CASE k = 0 -> 10
      [] k = 1 -> 20
      [] k = 2 -> 40
      [] OTHER -> 60

\* C36: the wait before retry number k (k = 0..max_retries-1) in
\* _create_with_retry is min(60, 10 * 2^k) seconds, that is 10, 20, 40, 60, 60
\* for the default of 5, so the delays are non-decreasing and never exceed 60
\* seconds.
C36_Backoff ==
    /\ Len(slept) <= max_retries
    /\ \A k \in 0..(Len(slept) - 1) :
          /\ slept[k + 1] = ClaimedWait(k)
          /\ slept[k + 1] <= 60
          /\ k > 0 => slept[k] <= slept[k + 1]

\* a call with the default of 5 retries was rate limited five times
C36_Witness ==
    /\ max_retries = 5
    /\ slept = <<10, 20, 40, 60, 60>>
    /\ \A i \in 1..5 : created[i] = "RateLimitError"

----------------------------------------------------------------------------
(* The recommendation of the memo (SpecMemo) *)

Recommendations == {"INVEST", "WATCH", "PASS"}

\* what each of the four patterns captures in the memo, in priority order
Captures ==
    <<JsonBlock(final_text), BoldLine(final_text), WhyHeading(final_text),
      BroadSearch(final_text)>>

Matching == {i \in 1..4 : Captures[i] # "none"}

----------------------------------------------------------------------------
(* Admission control (SpecJobs) *)

Submitted == {j \in JobIds : jobs[j].pc # "unsubmitted"}

\* C38: admission control: however many jobs are submitted, at most 2 analysis
\* runs are inside _run_pipeline at the same time; every further job stays
\* queued until a running one has left _run_pipeline.
C38_AtMostTwoRunning ==
    Cardinality({j \in JobIds : InsidePipeline(j)}) <= 2

\* the runs that share one semaphore are never more than 2 inside
\* _run_pipeline
AtMostTwoPerSemaphore ==
    \A s \in DOMAIN semaphores :
        Cardinality({j \in Submitted : jobs[j].sem = s /\ InsidePipeline(j)}) <= 2

----------------------------------------------------------------------------
(* Release of the semaphore and the end of a job (SpecJobs) *)

\* the threads that hold a slot of semaphore s
Holders(s) ==
    {j \in Submitted :
        /\ jobs[j].sem = s
        /\ jobs[j].pc \in {"entered", "pipeline", "loaded", "saved", "release"}}

\* every slot taken is held by one thread between its acquire and its release
SlotsAccounted ==
    \A s \in DOMAIN semaphores :
        semaphores[s] + Cardinality(Holders(s)) = SEMAPHORE_SLOTS

\* C39: every run that acquires the admission semaphore releases it exactly
\* once when its pipeline ends, whether the pipeline completes or fails, so
\* under fair scheduling every queued job eventually starts running provided
\* each running pipeline terminates; and every started job ends with status
\* complete or error.
C39_ReleasedAndFinished ==
    /\ []SlotsAccounted
    /\ \A j \in JobIds : []<>(jobs[j].pc # "wait")
    /\ [](\A j \in JobIds : jobs[j].pc \in {"release", "done"}
                                => jobs[j].status \in {"complete", "error"})
    /\ <>[](\A j \in JobIds : jobs[j].pc = "done")

\* three jobs share one semaphore; two have failed and released their slots,
\* and the third, which had to wait, has completed
C39_Witness ==
    /\ DOMAIN semaphores = {1}
    /\ semaphores[1] = SEMAPHORE_SLOTS
    /\ \A j \in JobIds : jobs[j].pc = "done"
    /\ jobs[1].status = "error"
    /\ jobs[2].status = "error"
    /\ jobs[3].status = "complete"

----------------------------------------------------------------------------
(* The history file (SpecJobs) *)

\* C40: when two analysis runs finish concurrently, the history file afterwards
\* contains an entry for each of them: under every interleaving of their
\* _save_history_entry calls no run's entry is lost or overwritten by the
\* other's.
C40_HistoryKeepsAll ==
    \A j \in JobIds :
        jobs[j].pc \in {"saved", "release", "done"} /\ jobs[j].status # "error"
            => j \in Range(history_file)

\* the file never holds an entry twice, and only entries of runs that saved
HistoryEntriesOnce ==
    /\ \A i, k \in 1..Len(history_file) :
          i # k => history_file[i] # history_file[k]
    /\ \A i \in 1..Len(history_file) :
          jobs[history_file[i]].pc \in {"saved", "release", "done"}

====
